---------------------------- MODULE Spec2Model ----------------------------
(***************************************************************************)
(* A model of pandoc-filter-rs: the condensation engine (CondenserWorker,  *)
(* ExpanderWorker, Inlines::condense / expand) of src/src/ast/mod.rs and   *)
(* the serialization adapter (Serialize / Deserialize for Pandoc and for   *)
(* Inlines) of src/src/ast/serde.rs.                                       *)
(*                                                                         *)
(* Text (Rope, InternedString) is a sequence of Unicode code points.       *)
(* Option<T> is a sequence of length 0 (None) or 1 (Some).                 *)
(***************************************************************************)
EXTENDS Integers, Sequences, FiniteSets, TLC

VARIABLES
    inl,           \* the Inlines value being converted in place
    hist,          \* history: the values inl has had, oldest first
    wire,          \* the JSON document at hand, the deserializer's input
    result,        \* the outcome of that deserialization
    doc,           \* the in-memory Pandoc document
    inserted,      \* the keys inserted into doc.meta, in insertion order
    outputs,       \* every serialization emitted for the current doc
    AUTOCONDENSE,  \* the thread-local flag of the calling thread
    threads,       \* the threads that deserialize side by side
    visit,         \* the traversal made last: its input, result and trace
    worker         \* a CondenserWorker / ExpanderWorker being driven

vars ==
    <<inl, hist, wire, result, doc, inserted, outputs, AUTOCONDENSE, threads,
      visit, worker>>

convVars == <<inl, hist, worker>>
serdeVars == <<wire, result, doc, inserted, outputs, AUTOCONDENSE>>
otherVars == <<threads, visit>>

-----------------------------------------------------------------------------
(* Bounds *)

\* longest Expanded inline sequence drawn as an input
MaxLen == 3
\* longest Condensed (hand-built) inline sequence drawn as an input
MaxCondLen == 2
\* longest text of the single Str fragment of a sentinel input
MaxText == 4
\* number of effective in-place conversions applied to one input
MaxSteps == 3
\* longest version array of a drawn document
MaxVersionLen == 3
\* most members of the top-level object of a drawn document
MaxEntries == 4
\* longest inline sequence of a drawn document
MaxWireLen == 3
\* most members of the metadata object of a drawn document
MaxMeta == 2
\* most insertions into the metadata of a document built in memory
MaxInserts == 3
\* most distinct serializations kept of one document
MaxOutputs == 2
\* calls one thread makes, one after the other
MaxCalls == 2
\* most blocks at the top level of a traversed document
MaxBlocks == 2
\* most calls of inner.next() one worker makes
MaxPolls == 8

-----------------------------------------------------------------------------
(* Characters *)

CONDENSED_LITERAL_SPACE == 131070
CONDENSED_LITERAL_CR == 131071
CONDENSED_LITERAL_NEWLINE == 196606
REPLACEMENT_CHARACTER == 65533
CHAR_SPACE == 32
CHAR_CR == 13
CHAR_LF == 10

\* characters that no arm of either worker treats specially
OrdinaryChars == {97, 98}

Sentinels ==
    {CONDENSED_LITERAL_SPACE, CONDENSED_LITERAL_CR, CONDENSED_LITERAL_NEWLINE}

BreakChars == {CHAR_SPACE, CHAR_CR, CHAR_LF}

-----------------------------------------------------------------------------
(* Data model *)

None == <<>>
Some(x) == <<x>>

\* the nested inline sequence of an inline that has none
NoInlines == [d |-> None, rep |-> "None", items |-> <<>>]

\* Inlines { decoration, content: Condensed(items) | Expanded(items) }
MkInlines(d, rep, items) == [d |-> d, rep |-> rep, items |-> items]

\* Inline { decoration, content }: t is the variant, s its text, c its
\* nested inline sequence
MkInline(d, t, s, c) == [d |-> d, t |-> t, s |-> s, c |-> c]

\* InlineContent::Leaf(ExpandedLeaf::Str(s)) and its three siblings
Str(s) == MkInline(None, "Str", s, NoInlines)
Space == MkInline(None, "Space", <<>>, NoInlines)
SoftBreak == MkInline(None, "SoftBreak", <<>>, NoInlines)
LineBreak == MkInline(None, "LineBreak", <<>>, NoInlines)
\* InlineContent::Leaf(r) with r a CondensedLeaf
Leaf(r) == MkInline(None, "Leaf", r, NoInlines)
\* InlineContent::Emph(i) and InlineContent::Code(_, r)
Emph(d, i) == MkInline(d, "Emph", <<>>, i)
Code(d, r) == MkInline(d, "Code", r, NoInlines)

LeafVariants == {"Str", "Space", "SoftBreak", "LineBreak", "Leaf"}

IsLeaf(x) == x.t \in LeafVariants

\* the value standing for a panic raised while an item was built
Panicked == MkInline(None, "panic", <<>>, NoInlines)

\* a cast that drops the decoration
trivial_castUndecorated(x) == IF IsLeaf(x) THEN Panicked ELSE [x EXCEPT !.d = None]

\* a cast that lacks the arm for Code
trivial_castNoCode(x) == IF IsLeaf(x) \/ x.t = "Code" THEN Panicked ELSE x

\* Inline::trivial_cast: the same inline at the other leaf type
trivial_cast(x) == IF IsLeaf(x) THEN Panicked ELSE x

-----------------------------------------------------------------------------
(* Condensation engine: Expanded -> Condensed *)

\* a condenser that copies every character of a Str as it is
EncodeCharNoEscape(ch) == ch

\* a condenser that takes the sentinels of '\r' and '\n' for one another
EncodeCharSwapped(ch) ==
    CASE ch = CHAR_SPACE -> CONDENSED_LITERAL_SPACE
      [] ch = CHAR_CR -> CONDENSED_LITERAL_NEWLINE
      [] ch = CHAR_LF -> CONDENSED_LITERAL_CR
      [] ch \in Sentinels -> REPLACEMENT_CHARACTER
      [] OTHER -> ch

\* a condenser that escapes the break characters but copies a reserved code
\* point as it is
EncodeCharKeepSentinel(ch) ==
    CASE ch = CHAR_SPACE -> CONDENSED_LITERAL_SPACE
      [] ch = CHAR_CR -> CONDENSED_LITERAL_CR
      [] ch = CHAR_LF -> CONDENSED_LITERAL_NEWLINE
      [] OTHER -> ch

\* the character pushed for one character of a Str (the inner match)
EncodeChar(ch) ==
    CASE ch = CHAR_SPACE -> CONDENSED_LITERAL_SPACE
      [] ch = CHAR_CR -> CONDENSED_LITERAL_CR
      [] ch = CHAR_LF -> CONDENSED_LITERAL_NEWLINE
      [] ch \in Sentinels -> REPLACEMENT_CHARACTER
      [] OTHER -> ch

\* for ch in s.chars() { ... output.push_back(..) }
EncodeStr(s) == [i \in 1..Len(s) |-> EncodeChar(s[i])]

\* what a leaf inline appends to the output buffer
EncodeLeaf(x) ==
    CASE x.t = "Str" -> EncodeStr(x.s)
      [] x.t = "Space" -> <<CHAR_SPACE>>
      [] x.t = "SoftBreak" -> <<CHAR_CR>>
      [] x.t = "LineBreak" -> <<CHAR_LF>>

\* CondenserWorker::new
CondenserWorkerNew(inner) == [inner |-> inner, residual |-> None]

\* a condenser that returns the non-leaf inline at once and loses the run
\* buffered before it
CondenserNonLeafNoFlush(x, inner, output) ==
    [item |-> Some(trivial_cast(x)), inner |-> inner, residual |-> None]

\* the two catch-all arms: a non-leaf inline met with the buffer `output`
CondenserNonLeaf(x, inner, output) ==
    IF output # <<>>
    THEN [item |-> Some(Leaf(output)), inner |-> inner, residual |-> Some(x)]
    ELSE [item |-> Some(trivial_cast(x)), inner |-> inner, residual |-> None]

\* the else-branches of the loop: the source is exhausted
CondenserEnd(inner, output) ==
    IF output # <<>>
    THEN [item |-> Some(Leaf(output)), inner |-> inner, residual |-> None]
    ELSE [item |-> None, inner |-> inner, residual |-> None]

RECURSIVE CondenserLoop(_, _, _)
\* the loop of CondenserWorker::next, entered with buffer `output`
CondenserLoop(inner, residual, output) ==
    IF residual = None /\ inner = <<>>
    THEN CondenserEnd(inner, output)
    ELSE LET x == IF residual # None THEN residual[1] ELSE Head(inner)
             rest == IF residual # None THEN inner ELSE Tail(inner)
         IN  IF x.t \in {"Str", "Space", "SoftBreak", "LineBreak"}
             THEN CondenserLoop(rest, None, output \o EncodeLeaf(x))
             ELSE CondenserNonLeaf(x, rest, output)

\* CondenserWorker::next: the item returned and the worker afterwards
CondenserWorkerNext(w) == CondenserLoop(w.inner, w.residual, <<>>)

RECURSIVE CondenserCollect(_)
\* `for i in condenser { output.push_back(i) }`: stops at the first None
CondenserCollect(w) ==
    LET r == CondenserWorkerNext(w)
    IN  IF r.item = None
        THEN <<>>
        ELSE <<r.item[1]>>
             \o CondenserCollect([inner |-> r.inner, residual |-> r.residual])

-----------------------------------------------------------------------------
(* Condensation engine: Condensed -> Expanded *)

\* an expander that does not decode the sentinels
DecodeCharIdentity(ch) == ch

\* the character pushed to the Str buffer for a non-break character
DecodeChar(ch) ==
    CASE ch = CONDENSED_LITERAL_SPACE -> CHAR_SPACE
      [] ch = CONDENSED_LITERAL_CR -> CHAR_CR
      [] ch = CONDENSED_LITERAL_NEWLINE -> CHAR_LF
      [] OTHER -> ch

\* an expander that takes '\r' for a hard line break and '\n' for a soft one
BreakLeafSwapped(ch) ==
    CASE ch = CHAR_SPACE -> Space
      [] ch = CHAR_CR -> LineBreak
      [] ch = CHAR_LF -> SoftBreak

\* the leaf emitted for a break character met with an empty buffer
BreakLeaf(ch) ==
    CASE ch = CHAR_SPACE -> Space
      [] ch = CHAR_CR -> SoftBreak
      [] ch = CHAR_LF -> LineBreak

\* ExpanderWorker::new
ExpanderWorkerNew(inner) == [inner |-> inner, residual |-> None]

\* the two catch-all arms: a non-leaf inline met with the buffer `output`
ExpanderNonLeaf(x, inner, output) ==
    IF output # <<>>
    THEN [item |-> Some(Str(output)), inner |-> inner, residual |-> Some(x)]
    ELSE [item |-> Some(trivial_cast(x)), inner |-> inner, residual |-> None]

\* the else-branches of the loop: the source is exhausted
ExpanderEnd(inner, output) ==
    IF output # <<>>
    THEN [item |-> Some(Str(output)), inner |-> inner, residual |-> None]
    ELSE [item |-> None, inner |-> inner, residual |-> None]

\* the arms for ' ', '\r', '\n': r is the rope with ch still at its front
ExpanderBreak(r, inner, output) ==
    IF output # <<>>
    THEN [item |-> Some(Str(output)), inner |-> inner,
          residual |-> Some(Leaf(r))]
    ELSE [item |-> Some(BreakLeaf(Head(r))), inner |-> inner,
          residual |-> Some(Leaf(Tail(r)))]

RECURSIVE ExpanderLoop(_, _, _)
RECURSIVE ExpanderChars(_, _, _)
\* an expander that returns its buffer at the end of every condensed leaf
ExpanderCharsNoMerge(r, inner, output) ==
    IF r = <<>>
    THEN IF output # <<>>
         THEN [item |-> Some(Str(output)), inner |-> inner, residual |-> None]
         ELSE ExpanderLoop(inner, None, output)
    ELSE IF Head(r) \in BreakChars
         THEN ExpanderBreak(r, inner, output)
         ELSE ExpanderChars(Tail(r), inner, Append(output, DecodeChar(Head(r))))

\* `while let Some(ch) = r.pop_front()` over the rope of one condensed leaf
ExpanderChars(r, inner, output) ==
    IF r = <<>>
    THEN ExpanderLoop(inner, None, output)
    ELSE IF Head(r) \in BreakChars
         THEN ExpanderBreak(r, inner, output)
         ELSE ExpanderChars(Tail(r), inner, Append(output, DecodeChar(Head(r))))

\* the loop of ExpanderWorker::next, entered with buffer `output`
ExpanderLoop(inner, residual, output) ==
    IF residual = None /\ inner = <<>>
    THEN ExpanderEnd(inner, output)
    ELSE LET x == IF residual # None THEN residual[1] ELSE Head(inner)
             rest == IF residual # None THEN inner ELSE Tail(inner)
         IN  IF x.t = "Leaf"
             THEN ExpanderChars(x.s, rest, output)
             ELSE ExpanderNonLeaf(x, rest, output)

\* ExpanderWorker::next: the item returned and the worker afterwards
ExpanderWorkerNext(w) == ExpanderLoop(w.inner, w.residual, <<>>)

RECURSIVE ExpanderCollect(_)
\* `for i in expander { output.push_back(i) }`: stops at the first None
ExpanderCollect(w) ==
    LET r == ExpanderWorkerNext(w)
    IN  IF r.item = None
        THEN <<>>
        ELSE <<r.item[1]>>
             \o ExpanderCollect([inner |-> r.inner, residual |-> r.residual])

-----------------------------------------------------------------------------
(* Inlines accessors *)

\* Inlines::condensed / into_condensed, collected
condensed(i) ==
    IF i.rep = "Condensed"
    THEN i.items
    ELSE CondenserCollect(CondenserWorkerNew(i.items))

\* an accessor that yields the expansion of the condensed form
expandedNormal(i) == ExpanderCollect(ExpanderWorkerNew(condensed(i)))

\* Inlines::expanded / into_expanded, collected
expanded(i) ==
    IF i.rep = "Expanded"
    THEN i.items
    ELSE ExpanderCollect(ExpanderWorkerNew(i.items))

\* the value standing for a panic raised by condense or expand
PanickedInlines == MkInlines(None, "panic", <<>>)

\* a swap that also replaces the decoration of the sequence
SwapFresh(i, rep) == [self |-> MkInlines(None, rep, <<>>), other |-> i]

\* std::mem::swap(&mut self.content, &mut other), other being an empty
\* vector in representation rep
Swap(i, rep) == [self |-> [i EXCEPT !.rep = rep, !.items = <<>>], other |-> i]

\* Inlines::condense: the value afterwards
condense(i) ==
    IF i.rep = "Condensed"
    THEN i
    ELSE LET w == Swap(i, "Condensed")
         IN  IF w.other.rep = "Condensed" \/ w.self.rep = "Expanded"
             THEN PanickedInlines
             ELSE [w.self EXCEPT
                      !.items = CondenserCollect(CondenserWorkerNew(w.other.items))]

\* Inlines::expand: the value afterwards
expand(i) ==
    IF i.rep = "Expanded"
    THEN i
    ELSE LET w == Swap(i, "Expanded")
         IN  IF w.other.rep = "Expanded" \/ w.self.rep = "Condensed"
             THEN PanickedInlines
             ELSE [w.self EXCEPT
                      !.items = ExpanderCollect(ExpanderWorkerNew(w.other.items))]

-----------------------------------------------------------------------------
(* Inputs of the condensation engine *)

\* all texts over `chars` of at most n characters
Texts(chars, n) == UNION {[1..k -> chars] : k \in 0..n}

\* the empty text and the texts of one character of `chars`
ShortTexts(chars) == {<<>>} \cup {<<ch>> : ch \in chars}

\* all sequences over `elems` of at most n elements
SeqsUpTo(elems, n) == UNION {[1..k -> elems] : k \in 0..n}

FullChars == {97} \cup BreakChars \cup Sentinels \cup {REPLACEMENT_CHARACTER}

\* characters of the Str fragments of drawn Expanded sequences
SeqChars == {97, CHAR_SPACE, CONDENSED_LITERAL_SPACE}

\* characters of the leaves of drawn Condensed sequences
CondChars ==
    {97, CHAR_SPACE, CONDENSED_LITERAL_SPACE, REPLACEMENT_CHARACTER}

NestedExpanded == MkInlines(None, "Expanded", <<Str(<<97>>), Space>>)
NestedCondensed == MkInlines(Some(1), "Condensed", <<Leaf(<<97, CHAR_SPACE>>)>>)

ExpandedElems ==
    {Str(t) : t \in ShortTexts(SeqChars)}
    \cup {Space, LineBreak, [Space EXCEPT !.d = Some(1)]}
    \cup {Emph(None, NestedExpanded), Emph(Some(2), NestedCondensed)}

CondensedElems ==
    {Leaf(t) : t \in ShortTexts(CondChars)}
    \cup {[Leaf(<<CHAR_LF>>) EXCEPT !.d = Some(1)]}
    \cup {Emph(None, NestedExpanded), Emph(Some(2), NestedCondensed)}

TextHi == <<104, 105>>
TextThere == <<116, 104, 101, 114, 101>>
TextHiThere == TextHi \o <<CHAR_SPACE>> \o TextThere
\* "a b\rc\nd"
TextSentinel == <<97, CHAR_SPACE, 98, CHAR_CR, 99, CHAR_LF, 100>>

ExampleRun == <<Str(TextHi), Space, Str(TextThere)>>
ExampleSplit == <<Str(TextHi), Emph(None, NestedExpanded), Str(TextThere)>>
ExampleBreaks == <<Str(TextHi), SoftBreak, Code(None, TextHi), LineBreak>>

ExpandedInputs ==
    {MkInlines(None, "Expanded", e) : e \in SeqsUpTo(ExpandedElems, MaxLen)}
    \cup {MkInlines(Some(3), "Expanded", e) :
            e \in {ExampleRun, ExampleSplit, ExampleBreaks, <<Str(TextSentinel)>>}}

SentinelInputs ==
    {MkInlines(None, "Expanded", <<Str(t)>>) : t \in Texts(FullChars, MaxText)}

CondensedInputs ==
    {MkInlines(None, "Condensed", c) : c \in SeqsUpTo(CondensedElems, MaxCondLen)}
    \cup {MkInlines(Some(3), "Condensed",
                    <<Leaf(TextHiThere), Code(None, TextHi),
                      Leaf(<<CHAR_CR, CONDENSED_LITERAL_CR, CHAR_LF,
                             CONDENSED_LITERAL_NEWLINE>>)>>)}

ConvInputs == ExpandedInputs \cup SentinelInputs \cup CondensedInputs

-----------------------------------------------------------------------------
(* The serialization adapter at rest *)

NoWire == [entries |-> <<>>]
NoResult ==
    [kind |-> "none", entry |-> "", msg |-> "", field |-> "", version |-> <<>>]

SerdeIdle ==
    /\ wire = NoWire
    /\ result = NoResult
    /\ doc = None
    /\ inserted = <<>>
    /\ outputs = {}
    /\ AUTOCONDENSE = TRUE

\* two threads, each with its own instance of the thread-local AUTOCONDENSE
Threads == {1, 2}

\* a thread that is in no call: entry is the entry point it is to call, pc
\* its position, cell its AUTOCONDENSE, old the local of no_autocondense,
\* todo the inline sequences still to read, out those read, calls the
\* number of calls it has begun, exit how the deserializer has left ("value",
\* "error" or "panic"), prev the entry point and the exit of the call before
MkThread(entry, todo) ==
    [entry |-> entry, pc |-> "idle", cell |-> TRUE, old |-> TRUE,
     todo |-> todo, out |-> <<>>, calls |-> 1, exit |-> "", prev |-> <<>>]

NoThreads == [t \in Threads |-> MkThread("", <<>>)]

\* no traversal made: op is the traversal, map the Map / DecorationMap /
\* Query it was given, input the tree, output the tree returned, trace the
\* calls made on `map`, oldest first
NoVisit == [op |-> "none", map |-> "", input |-> <<>>, output |-> <<>>, trace |-> <<>>]

OtherIdle == threads = NoThreads /\ visit = NoVisit

\* a worker over the source `src`, before its first next(). kind is
\* "condenser" or "expander"; source is "vector" (Vector::into_iter) or
\* "seq_access" (SeqAccessIter); pos is the number of outcomes of src the
\* source has gone past, pulled the indices of the elements it has yielded,
\* polls the number of calls of inner.next(); after is what a SeqAccess does
\* when it is asked again after an error; error is the slot SeqAccessIter
\* writes to; output is the buffer of the next() under way, out the items
\* returned so far, calls the number of calls of next(), pc the position
\* ("idle" between two calls, "loop" in next(), "done" when next() has
\* returned None, "returned" when the caller has its result)
NewWorker(kind, source, src, after) ==
    [kind |-> kind, source |-> source, src |-> src, after |-> after,
     pos |-> 0, pulled |-> <<>>, polls |-> 0, error |-> None,
     residual |-> None, output |-> <<>>, out |-> <<>>, calls |-> 0,
     pc |-> "idle", result |-> ""]

NoWorker == NewWorker("none", "", <<>>, "")

ConvIdle ==
    /\ inl = MkInlines(None, "Expanded", <<>>)
    /\ hist = <<inl>>
    /\ worker = NoWorker

-----------------------------------------------------------------------------
(* In-place conversion of one inline sequence *)

InitConv ==
    /\ inl \in ConvInputs
    /\ hist = <<inl>>
    /\ worker = NoWorker
    /\ SerdeIdle
    /\ OtherIdle

\* i.condense(): hist grows only when the call converted
Condense ==
    /\ Len(hist) <= MaxSteps
    /\ inl' = condense(inl)
    /\ hist' = IF inl.rep = "Condensed" THEN hist ELSE Append(hist, inl')
    /\ UNCHANGED <<worker, serdeVars, otherVars>>

\* i.expand(): hist grows only when the call converted
Expand ==
    /\ Len(hist) <= MaxSteps
    /\ inl' = expand(inl)
    /\ hist' = IF inl.rep = "Expanded" THEN hist ELSE Append(hist, inl')
    /\ UNCHANGED <<worker, serdeVars, otherVars>>

NextConv == Condense \/ Expand

SpecConv == InitConv /\ [][NextConv]_vars

-----------------------------------------------------------------------------
(* A worker driven to exhaustion, one iteration of its loop at a time *)

\* next_element has returned Err(e)
Failure == MkInline(None, "Err", <<>>, NoInlines)

\* what a SeqAccess may do when it is asked for an element after it has
\* returned an error: report the end of the sequence, return the error
\* again, or go on with the element after the one that failed
AfterModes == {"end", "error", "resume"}

\* a SeqAccessIter that writes the error of every outcome to the slot
ErrorSlotLast(error, outcome) == IF outcome = "Err" THEN Some("e") ELSE None

\* *self.error once next_element has returned `outcome`: written by the
\* Err arm only
ErrorSlot(error, outcome) == IF outcome = "Err" THEN Some("e") ELSE error

\* an iterator that yields its front element and leaves it in place
InnerNextPeek(w) ==
    IF w.pos >= Len(w.src)
    THEN [item |-> None, w |-> [w EXCEPT !.polls = @ + 1]]
    ELSE [item |-> Some(w.src[w.pos + 1]),
          w |-> [w EXCEPT !.polls = @ + 1, !.pulled = Append(@, w.pos + 1)]]

\* self.inner.next(): Vector's ConsumingIter::next, or SeqAccessIter::next
\* over next_element
InnerNext(w) ==
    IF w.pos >= Len(w.src)
    THEN [item |-> None,
          w |-> [w EXCEPT !.polls = @ + 1, !.error = ErrorSlot(@, "None")]]
    ELSE IF w.src[w.pos + 1] = Failure
         THEN [item |-> None,
               w |-> [w EXCEPT
                        !.polls = @ + 1,
                        !.error = ErrorSlot(@, "Err"),
                        !.pos = CASE w.after = "resume" -> @ + 1
                                  [] w.after = "error" -> @
                                  [] OTHER -> Len(w.src)]]
         ELSE [item |-> Some(w.src[w.pos + 1]),
               w |-> [w EXCEPT
                        !.polls = @ + 1,
                        !.pos = @ + 1,
                        !.pulled = Append(@, w.pos + 1),
                        !.error = ErrorSlot(@, "Some")]]

\* self.residual.take().or_else(|| self.inner.next())
Poll(w) ==
    IF w.residual # None
    THEN [item |-> w.residual, w |-> [w EXCEPT !.residual = None]]
    ELSE InnerNext(w)

\* next() returns r.item, having set the residual slot if r has one
Return(w, r) ==
    [w EXCEPT !.residual = IF r.residual # None THEN r.residual ELSE @,
              !.out = @ \o r.item,
              !.output = <<>>,
              !.pc = IF r.item = None THEN "done" ELSE "idle"]

RECURSIVE ExpanderRope(_, _)
\* `while let Some(ch) = r.pop_front()`: the rope left when the loop ends or
\* a break arm is taken (ch pushed back at its front), and the buffer
ExpanderRope(r, output) ==
    IF r = <<>> \/ Head(r) \in BreakChars
    THEN [r |-> r, output |-> output]
    ELSE ExpanderRope(Tail(r), Append(output, DecodeChar(Head(r))))

\* Vector::from_iter(condenser) / `for i in condenser`: the worker has not
\* returned None yet and next() is called, with an empty buffer
CallNext ==
    /\ worker.kind # "none"
    /\ worker.pc = "idle"
    /\ worker' = [worker EXCEPT !.pc = "loop", !.calls = @ + 1, !.output = <<>>]
    /\ UNCHANGED <<inl, hist, serdeVars, otherVars>>

\* one iteration of the loop of CondenserWorker::next
CondenserIterate ==
    /\ worker.kind = "condenser"
    /\ worker.pc = "loop"
    /\ worker.polls < MaxPolls
    /\ LET p == Poll(worker)
           w == p.w
       IN  worker' =
             IF p.item = None
             THEN Return(w, CondenserEnd(<<>>, w.output))
             ELSE IF p.item[1].t \in {"Str", "Space", "SoftBreak", "LineBreak"}
                  THEN [w EXCEPT !.output = @ \o EncodeLeaf(p.item[1])]
                  ELSE Return(w, CondenserNonLeaf(p.item[1], <<>>, w.output))
    /\ UNCHANGED <<inl, hist, serdeVars, otherVars>>

\* one iteration of the loop of ExpanderWorker::next
ExpanderIterate ==
    /\ worker.kind = "expander"
    /\ worker.pc = "loop"
    /\ worker.polls < MaxPolls
    /\ LET p == Poll(worker)
           w == p.w
       IN  worker' =
             IF p.item = None
             THEN Return(w, ExpanderEnd(<<>>, w.output))
             ELSE IF p.item[1].t = "Leaf"
                  THEN LET q == ExpanderRope(p.item[1].s, w.output)
                       IN  IF q.r = <<>>
                           THEN [w EXCEPT !.output = q.output]
                           ELSE Return(w, ExpanderBreak(q.r, <<>>, q.output))
                  ELSE Return(w, ExpanderNonLeaf(p.item[1], <<>>, w.output))
    /\ UNCHANGED <<inl, hist, serdeVars, otherVars>>

\* the caller has the items: visit_seq returns Err(e) if the slot holds an
\* error and the Condensed sequence if not; condense and expand store the
\* sequence
Collected ==
    /\ worker.pc = "done"
    /\ worker' = [worker EXCEPT
                    !.pc = "returned",
                    !.result = IF worker.error # None THEN "err" ELSE "ok"]
    /\ UNCHANGED <<inl, hist, serdeVars, otherVars>>

\* elements a SeqAccess yields: undecorated inlines, and errors
AccessOutcomes ==
    {Str(<<97>>), Space,
     Emph(None, MkInlines(None, "Condensed", <<Leaf(<<97>>)>>)), Failure}

Workers ==
    {NewWorker("condenser", "vector", i.items, "") : i \in ExpandedInputs}
    \cup {NewWorker("expander", "vector", i.items, "") : i \in CondensedInputs}
    \cup {NewWorker("condenser", "seq_access", src, after) :
            src \in SeqsUpTo(AccessOutcomes, MaxLen), after \in AfterModes}

InitWorker ==
    /\ inl = MkInlines(None, "Expanded", <<>>)
    /\ hist = <<inl>>
    /\ worker \in Workers
    /\ SerdeIdle
    /\ OtherIdle

NextWorker == CallNext \/ CondenserIterate \/ ExpanderIterate \/ Collected

SpecWorker == InitWorker /\ [][NextWorker]_vars

\* next() and the loop that drives it are sequential code: a step that can
\* be taken is taken
SpecWorkerFair == SpecWorker /\ WF_vars(NextWorker)

-----------------------------------------------------------------------------
(* Properties of the condensation engine *)

Tok(k, ch, node) == [k |-> k, ch |-> ch, node |-> node]

RECURSIVE LeafTokens(_)
\* the leaf semantic tokens of an Expanded sequence: one token per character
\* of Str content (so that fragment boundaries do not show), one per Space,
\* SoftBreak and LineBreak, and one per non-leaf inline, in order
LeafTokens(e) ==
    IF e = <<>>
    THEN <<>>
    ELSE LET x == Head(e)
             here == CASE x.t = "Str" ->
                            [i \in 1..Len(x.s) |-> Tok("ch", x.s[i], Panicked)]
                       [] x.t \in {"Space", "SoftBreak", "LineBreak"} ->
                            <<Tok(x.t, 0, Panicked)>>
                       [] OTHER -> <<Tok("node", 0, x)>>
         IN  here \o LeafTokens(Tail(e))

\* e with every reserved code point inside a Str replaced by U+FFFD
Sanitized(e) ==
    [i \in 1..Len(e) |->
        IF e[i].t = "Str"
        THEN [e[i] EXCEPT !.s = [j \in 1..Len(e[i].s) |->
                                    IF e[i].s[j] \in Sentinels
                                    THEN REPLACEMENT_CHARACTER
                                    ELSE e[i].s[j]]]
        ELSE e[i]]

HasSentinel(e) ==
    \E i \in 1..Len(e) :
        e[i].t \in {"Str", "Leaf"} /\ \E j \in 1..Len(e[i].s) : e[i].s[j] \in Sentinels

HasNonLeaf(e) == \E i \in 1..Len(e) : ~IsLeaf(e[i])

\* hist = <<e, condense(e), expand(condense(e)), ..>> for an Expanded e
CondenseThenExpand == Len(hist) >= 3 /\ hist[1].rep = "Expanded"

\* hist = <<c, expand(c), condense(expand(c)), expand(..)>> for a Condensed c
ExpandCondenseExpand == Len(hist) >= 4 /\ hist[1].rep = "Condensed"

\* C2 (as stated): for every Expanded sequence e, over all Str contents,
\* expand(condense(e)) has the same leaf tokens as e once adjacent Str
\* fragments are concatenated.
C2_Original ==
    CondenseThenExpand =>
        LeafTokens(hist[3].items) = LeafTokens(hist[1].items)

\* C2 (amended): expand(condense(e)) has the leaf tokens of e in which every
\* reserved code point inside a Str is replaced by U+FFFD; nothing else is
\* changed, reordered, inserted or dropped.
C2_CondenseExpand ==
    CondenseThenExpand =>
        /\ hist[3].rep = "Expanded"
        /\ hist[3].d = hist[1].d
        /\ LeafTokens(hist[3].items) = LeafTokens(Sanitized(hist[1].items))

C2_Witness ==
    /\ CondenseThenExpand
    /\ HasSentinel(hist[1].items)
    /\ HasNonLeaf(hist[1].items)
    /\ \E i \in 1..Len(hist[1].items) : hist[1].items[i].t = "Space"
    /\ hist[3].items # hist[1].items

\* C3: for every Condensed sequence c, hand-built ones included,
\* expand(condense(expand(c))) has the same leaf tokens as expand(c).
C3_ExpandStable ==
    ExpandCondenseExpand =>
        /\ hist[4].rep = "Expanded"
        /\ LeafTokens(hist[4].items) = LeafTokens(hist[2].items)

C3_Witness ==
    /\ ExpandCondenseExpand
    /\ HasSentinel(hist[1].items)
    /\ Len(hist[1].items) >= 2
    /\ hist[1].items[1].t = "Leaf"
    /\ hist[1].items[2].t = "Leaf"
    /\ hist[3] # hist[1]

\* the text one leaf inline stands for in a condensed leaf, read off the
\* encoding table of CondensedLeaf
LeafText(x) ==
    CASE x.t = "Space" -> <<CHAR_SPACE>>
      [] x.t = "SoftBreak" -> <<CHAR_CR>>
      [] x.t = "LineBreak" -> <<CHAR_LF>>
      [] x.t = "Str" ->
            [j \in 1..Len(x.s) |->
                CASE x.s[j] = CHAR_SPACE -> CONDENSED_LITERAL_SPACE
                  [] x.s[j] = CHAR_CR -> CONDENSED_LITERAL_CR
                  [] x.s[j] = CHAR_LF -> CONDENSED_LITERAL_NEWLINE
                  [] x.s[j] \in Sentinels -> REPLACEMENT_CHARACTER
                  [] OTHER -> x.s[j]]

RECURSIVE RunText(_, _, _)
\* the encoded text of the leaves e[i..j]
RunText(e, i, j) ==
    IF i > j THEN <<>> ELSE LeafText(e[i]) \o RunText(e, i + 1, j)

\* i starts a maximal run of consecutive leaf inlines of e
RunStart(e, i) == IsLeaf(e[i]) /\ (i = 1 \/ ~IsLeaf(e[i - 1]))

\* the last index of the maximal run that starts at i
RunEnd(e, i) ==
    CHOOSE j \in i..Len(e) :
        /\ \A k \in i..j : IsLeaf(e[k])
        /\ (j = Len(e) \/ ~IsLeaf(e[j + 1]))

\* the starts of the maximal runs whose encoded text is not empty
NonEmptyRuns(e) ==
    {i \in 1..Len(e) : RunStart(e, i) /\ RunText(e, i, RunEnd(e, i)) # <<>>}

RECURSIVE RunsFrom(_, _)
\* what condensing e[i..] is to yield: one undecorated leaf per run of
\* NonEmptyRuns(e), every non-leaf inline as it is, in the order of e
RunsFrom(e, i) ==
    IF i > Len(e)
    THEN <<>>
    ELSE (IF ~IsLeaf(e[i])
          THEN <<e[i]>>
          ELSE IF i \in NonEmptyRuns(e)
               THEN <<Leaf(RunText(e, i, RunEnd(e, i)))>>
               ELSE <<>>)
         \o RunsFrom(e, i + 1)

CountLeaves(c) == Cardinality({i \in 1..Len(c) : c[i].t = "Leaf"})

\* hist = <<e, condense(e), ..>> for an Expanded e
Condensing == Len(hist) >= 2 /\ hist[1].rep = "Expanded"

\* C9: condensing an Expanded sequence emits exactly one leaf per maximal run
\* of consecutive leaf inlines with non-empty encoded text, and every non-leaf
\* inline between the leaves of the runs around it, in the original order;
\* [Str("hi"), Space, Str("there")] yields the single leaf "hi there".
C9_RunSegmentation ==
    Condensing =>
        /\ hist[2].rep = "Condensed"
        /\ CountLeaves(hist[2].items) = Cardinality(NonEmptyRuns(hist[1].items))
        /\ hist[2].items = RunsFrom(hist[1].items, 1)
        /\ (hist[1].items = ExampleRun => hist[2].items = <<Leaf(TextHiThere)>>)
        /\ (hist[1].items = ExampleSplit =>
                hist[2].items =
                    <<Leaf(TextHi), Emph(None, NestedExpanded), Leaf(TextThere)>>)

C9_Witness ==
    /\ Condensing
    /\ Len(hist[1].items) = 3
    /\ IsLeaf(hist[1].items[1])
    /\ ~IsLeaf(hist[1].items[2])
    /\ IsLeaf(hist[1].items[3])
    /\ Len(hist[2].items) = 3
    /\ hist[2].items[1].t = "Leaf"
    /\ hist[2].items[3].t = "Leaf"

\* hist = <<[Str(s)], condense, expand, ..>> with ' ', '\r' and '\n' in s
SentinelCase ==
    /\ Len(hist) >= 3
    /\ hist[1].rep = "Expanded"
    /\ Len(hist[1].items) = 1
    /\ hist[1].items[1].t = "Str"
    /\ \A b \in BreakChars :
            \E j \in 1..Len(hist[1].items[1].s) : hist[1].items[1].s[j] = b

\* the sentinel the documentation of CondensedLeaf gives for a literal
SentinelOf(ch) ==
    CASE ch = CHAR_SPACE -> CONDENSED_LITERAL_SPACE
      [] ch = CHAR_CR -> CONDENSED_LITERAL_CR
      [] ch = CHAR_LF -> CONDENSED_LITERAL_NEWLINE

\* condense gave one leaf with the three literals replaced by their sentinels
SentinelLeaf(s, c) ==
    /\ Len(c) = 1
    /\ c[1].t = "Leaf"
    /\ Len(c[1].s) = Len(s)
    /\ \A j \in 1..Len(s) :
            /\ s[j] \in BreakChars => c[1].s[j] = SentinelOf(s[j])
            /\ s[j] \notin BreakChars \cup Sentinels => c[1].s[j] = s[j]

\* expand gave exactly one Str with text s
OneStr(s, e) == Len(e) = 1 /\ e[1].t = "Str" /\ e[1].s = s

\* C10 (as stated): a single Str whose text contains ' ', '\r' and '\n'
\* condenses to one leaf with U+1FFFE, U+1FFFF, U+2FFFE in their places, and
\* expanding that leaf yields exactly one Str with the original text.
C10_Original ==
    SentinelCase =>
        /\ SentinelLeaf(hist[1].items[1].s, hist[2].items)
        /\ OneStr(hist[1].items[1].s, hist[3].items)

\* C10 (amended): the same, for a text that contains none of the three
\* reserved code points itself.
C10_SentinelRoundTrip ==
    (SentinelCase /\ ~HasSentinel(hist[1].items)) =>
        /\ SentinelLeaf(hist[1].items[1].s, hist[2].items)
        /\ OneStr(hist[1].items[1].s, hist[3].items)

C10_Witness ==
    /\ SentinelCase
    /\ hist[1].items[1].s = TextSentinel
    /\ hist[2].items[1].s =
            <<97, CONDENSED_LITERAL_SPACE, 98, CONDENSED_LITERAL_CR, 99,
              CONDENSED_LITERAL_NEWLINE, 100>>
    /\ hist[3].items = <<Str(TextSentinel)>>

\* hist = <<[Str(s)], condense, ..>> with a reserved code point in s
FallbackCase ==
    /\ Condensing
    /\ Len(hist[1].items) = 1
    /\ hist[1].items[1].t = "Str"
    /\ HasSentinel(hist[1].items)

NoPanic(items) == \A i \in 1..Len(items) : items[i].t # "panic"

\* C11: when a Str being condensed contains a reserved sentinel code point
\* literally, each such occurrence is replaced by U+FFFD in the condensed
\* text, every other character is encoded as usual, and nothing panics.
C11_SentinelFallback ==
    FallbackCase =>
        LET t == hist[1].items[1].s
            c == hist[2].items
        IN  /\ hist[2].rep = "Condensed"
            /\ NoPanic(c)
            /\ Len(c) = 1
            /\ c[1].t = "Leaf"
            /\ Len(c[1].s) = Len(t)
            /\ \A j \in 1..Len(t) :
                    c[1].s[j] = IF t[j] \in Sentinels THEN 65533
                                ELSE IF t[j] \in BreakChars THEN SentinelOf(t[j])
                                ELSE t[j]

C11_Witness ==
    /\ FallbackCase
    /\ hist[1].items[1].s = <<97, CONDENSED_LITERAL_CR, CHAR_SPACE, CONDENSED_LITERAL_SPACE>>
    /\ hist[2].items = <<Leaf(<<97, 65533, CONDENSED_LITERAL_SPACE, 65533>>)>>

\* C20: for every inline sequence in either representation, condensed,
\* into_condensed, expanded, into_expanded, condense and expand never panic:
\* trivial_cast is never applied to a leaf inline and the unreachable arms of
\* condense and expand are never reached.
C20_Total ==
    /\ NoPanic(condensed(inl))
    /\ NoPanic(expanded(inl))
    /\ \A k \in 1..Len(hist) :
            /\ hist[k].rep \in {"Condensed", "Expanded"}
            /\ NoPanic(hist[k].items)

\* a sequence with leaves around a non-leaf inline has gone both ways
C20_Witness ==
    /\ Len(hist) >= 3
    /\ Len(hist[1].items) = 3
    /\ IsLeaf(hist[1].items[1])
    /\ hist[1].items[2].t = "Emph"
    /\ IsLeaf(hist[1].items[3])
    /\ hist[2].rep # hist[1].rep
    /\ hist[3].rep = hist[1].rep

\* C21: after condense() the content is in Condensed form and equals what
\* condensed() yielded before the call, and a further condense() converts
\* nothing and leaves the content as it is; likewise for expand() and
\* expanded(); neither call changes the decoration of the sequence.
C21_InPlace ==
    /\ hist[Len(hist)] = inl
    /\ \A k \in 1..(Len(hist) - 1) :
            /\ hist[k + 1].d = hist[k].d
            /\ hist[k].rep = "Expanded" =>
                    /\ hist[k + 1] = condense(hist[k])
                    /\ hist[k + 1].rep = "Condensed"
                    /\ hist[k + 1].items = condensed(hist[k])
            /\ hist[k].rep = "Condensed" =>
                    /\ hist[k + 1] = expand(hist[k])
                    /\ hist[k + 1].rep = "Expanded"
                    /\ hist[k + 1].items = expanded(hist[k])
    /\ inl.rep = "Condensed" =>
            condense(inl) = inl /\ condensed(inl) = inl.items
    /\ inl.rep = "Expanded" =>
            expand(inl) = inl /\ expanded(inl) = inl.items

\* a decorated sequence with a non-leaf inline has been condensed and
\* expanded again
C21_Witness ==
    /\ Len(hist) >= 3
    /\ hist[1].d = Some(3)
    /\ hist[1].items = ExampleSplit
    /\ hist[2].rep = "Condensed"
    /\ hist[3].rep = "Expanded"

\* items holds no leaf of variant t with an empty text and no two adjacent
\* leaves of variant t
Merged(items, t) ==
    /\ \A i \in 1..Len(items) : items[i].t = t => items[i].s # <<>>
    /\ \A i \in 1..(Len(items) - 1) : ~(items[i].t = t /\ items[i + 1].t = t)

\* C25: the output of the condenser never holds a leaf with an empty text
\* nor two adjacent leaves, and the output of the expander never holds an
\* empty Str nor two adjacent Str, whatever the input holds (empty Str,
\* empty condensed leaves, adjacent condensed leaves).
C25_Merged ==
    /\ Merged(condensed(inl), "Leaf") \/ inl.rep = "Condensed"
    /\ Merged(expanded(inl), "Str") \/ inl.rep = "Expanded"
    /\ \A k \in 2..Len(hist) :
            IF hist[k].rep = "Condensed"
            THEN Merged(hist[k].items, "Leaf")
            ELSE Merged(hist[k].items, "Str")

\* two adjacent condensed leaves have been expanded to one Str and condensed
\* again
C25_Witness ==
    /\ Len(hist) >= 3
    /\ hist[1].rep = "Condensed"
    /\ hist[1].items = <<Leaf(<<97>>), Leaf(<<97>>)>>
    /\ hist[2].items = <<Str(<<97, 97>>)>>
    /\ hist[3].items = <<Leaf(<<97, 97>>)>>

\* the non-leaf inlines of items, in order
NonLeaves(items) == SelectSeq(items, LAMBDA x : ~IsLeaf(x))

\* C23: when an Expanded sequence is condensed, each non-leaf inline is in
\* the output at its original relative position with its decoration and
\* variant unchanged, and the inline sequences nested inside it are in
\* Condensed representation afterwards.
C23_NonLeafFrame ==
    Condensing =>
        LET a == NonLeaves(hist[1].items)
            b == NonLeaves(hist[2].items)
        IN  /\ Len(b) = Len(a)
            /\ \A j \in 1..Len(b) :
                    /\ b[j].d = a[j].d
                    /\ b[j].t = a[j].t
                    /\ b[j].t = "Emph" => b[j].c.rep = "Condensed"

\* C26: every leaf emitted by the condenser or the expander has no
\* decoration, whatever decorations the leaves of the input carried, and
\* every non-leaf inline keeps its decoration.
C26_Decorations ==
    \A k \in 2..Len(hist) :
        /\ \A i \in 1..Len(hist[k].items) :
                IsLeaf(hist[k].items[i]) => hist[k].items[i].d = None
        /\ NonLeaves(hist[k].items) = NonLeaves(hist[k - 1].items)

\* a sequence of a decorated leaf and a decorated non-leaf inline has been
\* condensed and expanded again
C26_Witness ==
    /\ Len(hist) >= 3
    /\ hist[1].items = <<[Space EXCEPT !.d = Some(1)], Emph(Some(2), NestedCondensed)>>
    /\ hist[2].items = <<Leaf(<<CHAR_SPACE>>), Emph(Some(2), NestedCondensed)>>
    /\ hist[3].items = <<Space, Emph(Some(2), NestedCondensed)>>

-----------------------------------------------------------------------------
(* Properties of a driven worker *)

RECURSIVE Weight(_)
\* the most items a worker returns for the source src: one for a non-leaf
\* inline, and no more than one for each character of a leaf
Weight(src) ==
    IF src = <<>> THEN 0
    ELSE (IF Len(Head(src).s) > 1 THEN Len(Head(src).s) ELSE 1) + Weight(Tail(src))

Fails(src) == \E k \in DOMAIN src : src[k] = Failure

\* the worker has made no more calls than its source has content, has
\* pulled no element twice, holds at most one element in its residual slot,
\* and has pulled every element and holds none when next() has returned None
SinglePass ==
    /\ Len(worker.residual) <= 1
    /\ \A i, j \in DOMAIN worker.pulled :
            i # j => worker.pulled[i] # worker.pulled[j]
    /\ worker.polls <= Len(worker.src) + 2
    /\ Len(worker.out) <= Weight(worker.src)
    /\ worker.calls <= Len(worker.out) + 1
    /\ worker.pc \in {"done", "returned"} =>
            /\ worker.residual = None
            /\ ~Fails(worker.src) =>
                    worker.pulled = [k \in 1..Len(worker.src) |-> k]

\* C24: driving a condensing or an expanding iterator to exhaustion over a
\* finite source terminates after finitely many calls of next(), each of
\* which terminates; every element of the source is pulled exactly once, the
\* residual slot never holds more than one element, and it is empty when
\* next() returns None.
C24_SinglePass ==
    /\ []SinglePass
    /\ <>(worker.pc = "returned")
    /\ (worker.pc = "loop") ~> (worker.pc # "loop")

\* an expander has been driven to exhaustion over three elements, two of
\* them leaves it has split at their break characters
C24_Witness ==
    /\ worker.kind = "expander"
    /\ worker.pc = "returned"
    /\ Len(worker.src) = 3
    /\ worker.src[1] = Leaf(TextHiThere)
    /\ worker.pulled = <<1, 2, 3>>
    /\ Len(worker.out) = 8
    /\ worker.calls = 9

\* C28: an error of an element of an inline sequence is not lost to the
\* auto-condensation: if deserializing an element fails, deserializing the
\* sequence returns an error and no partly condensed value, also when the
\* condenser has buffered a run and asks the source for an element again
\* after the failure.
C28_ErrorKept ==
    (worker.source = "seq_access" /\ worker.pc = "returned") =>
        worker.result = IF Fails(worker.src) THEN "err" ELSE "ok"

\* the element after a run has failed, the condenser has returned the run,
\* has asked again and has returned the run after the failure
C28_Witness ==
    /\ worker.source = "seq_access"
    /\ worker.pc = "returned"
    /\ worker.src = <<Str(<<97>>), Failure, Str(<<97>>)>>
    /\ worker.after = "resume"
    /\ worker.out = <<Leaf(<<97>>), Leaf(<<97>>)>>
    /\ worker.polls = 5
    /\ worker.result = "err"

-----------------------------------------------------------------------------
(* Data model: documents *)

API_VERSION == <<1, 23, 1>>

\* HashMap<InternedString, MetaValue>: a set of entries with distinct keys
EmptyMap == {}
MapKeys(m) == {p.k : p \in m}
HashMapInsert(m, k, v) == {p \in m : p.k # k} \cup {[k |-> k, v |-> v]}

\* MetaValue { decoration, content }: t is the variant of MetaValueContent,
\* b / i / m the payload of Bool / Inlines / Map
MkMetaValue(d, t, b, i, m) == [decoration |-> d, t |-> t, b |-> b, i |-> i, m |-> m]
MetaBool(b) == MkMetaValue(None, "MetaBool", b, NoInlines, EmptyMap)
MetaInlines(i) == MkMetaValue(None, "MetaInlines", FALSE, i, EmptyMap)
MetaMap(m) == MkMetaValue(None, "MetaMap", FALSE, NoInlines, m)

\* Block { decoration, content }: Para(i) or HorizontalRule
MkBlock(d, t, i) == [decoration |-> d, t |-> t, i |-> i]
\* Blocks { decoration, content }
MkBlocks(d, content) == [decoration |-> d, content |-> content]
\* Pandoc { decoration, meta, blocks }
MkPandoc(d, meta, blocks) == [decoration |-> d, meta |-> meta, blocks |-> blocks]

-----------------------------------------------------------------------------
(* Wire format: JSON values, objects as sequences of members in text order *)

\* {"t": t, "c": ..} of InlineSerde: s the text, c the nested inlines
WInline(t, s, c) == [t |-> t, s |-> s, c |-> c]
\* {"t": t, "c": ..} of MetaValueContent
WMeta(t, b, i, m) == [t |-> t, b |-> b, i |-> i, m |-> m]
WMetaBool(b) == WMeta("MetaBool", b, <<>>, <<>>)
WMetaInlines(i) == WMeta("MetaInlines", FALSE, i, <<>>)
WMetaMap(m) == WMeta("MetaMap", FALSE, <<>>, m)
\* one member of a metadata object
WPair(k, v) == [k |-> k, v |-> v]
\* {"t": t, "c": ..} of BlockContent
WBlock(t, i) == [t |-> t, i |-> i]
\* one member of the top-level object
WEntry(key, version, meta, blocks) ==
    [key |-> key, version |-> version, meta |-> meta, blocks |-> blocks]
WVersion(v) == WEntry("pandoc-api-version", v, <<>>, <<>>)
WMetaEntry(m) == WEntry("meta", <<>>, m, <<>>)
WBlocksEntry(b) == WEntry("blocks", <<>>, <<>>, b)
WUnknown == WEntry("extra", <<>>, <<>>, <<>>)

FIELDS == <<"pandoc-api-version", "meta", "blocks">>

-----------------------------------------------------------------------------
(* Deserialization *)

RECURSIVE InlinesDeserialize(_, _)
\* a deserializer that gives every inline the decoration 0
InlineDeserializeDefault(x, autocondense) ==
    IF x.t = "Emph"
    THEN Emph(Some(0), InlinesDeserialize(x.c, autocondense))
    ELSE MkInline(Some(0), x.t, x.s, NoInlines)

\* SeqAccessIter::next / the map of the else-branch: one element, undecorated
InlineDeserialize(x, autocondense) ==
    IF x.t = "Emph"
    THEN Emph(None, InlinesDeserialize(x.c, autocondense))
    ELSE MkInline(None, x.t, x.s, NoInlines)

\* a deserializer that condenses whatever the value of AUTOCONDENSE
InlinesDeserializeAlways(w, autocondense) ==
    LET elems == [k \in 1..Len(w) |-> InlineDeserialize(w[k], autocondense)]
    IN  MkInlines(None, "Condensed", CondenserCollect(CondenserWorkerNew(elems)))

\* Inlines::deserialize, with the value AUTOCONDENSE has during the call
InlinesDeserialize(w, autocondense) ==
    LET elems == [k \in 1..Len(w) |-> InlineDeserialize(w[k], autocondense)]
    IN  IF autocondense
        THEN MkInlines(None, "Condensed",
                       CondenserCollect(CondenserWorkerNew(elems)))
        ELSE MkInlines(None, "Expanded", elems)

RECURSIVE MapDeserialize(_, _)
\* MetaValueSerde -> MetaValue
MetaValueDeserialize(v, autocondense) ==
    CASE v.t = "MetaBool" -> MetaBool(v.b)
      [] v.t = "MetaInlines" -> MetaInlines(InlinesDeserialize(v.i, autocondense))
      [] v.t = "MetaMap" -> MetaMap(MapDeserialize(v.m, autocondense))

\* HashMap::deserialize: the members are inserted in text order
MapDeserialize(pairs, autocondense) ==
    IF pairs = <<>>
    THEN EmptyMap
    ELSE LET n == Len(pairs)
         IN  HashMapInsert(MapDeserialize(SubSeq(pairs, 1, n - 1), autocondense),
                           pairs[n].k,
                           MetaValueDeserialize(pairs[n].v, autocondense))

\* BlockSerde -> Block
BlockDeserialize(b, autocondense) ==
    MkBlock(None, b.t, IF b.t = "Para"
                       THEN InlinesDeserialize(b.i, autocondense)
                       ELSE NoInlines)

\* BlocksSerde -> Blocks
BlocksDeserialize(bs, autocondense) ==
    MkBlocks(None, [k \in 1..Len(bs) |-> BlockDeserialize(bs[k], autocondense)])

\* a check of the major component alone
StartsWithFirst(v, prefix) == Len(v) >= 1 /\ v[1] = prefix[1]

\* <[u32]>::starts_with
StartsWith(v, prefix) ==
    /\ Len(v) >= Len(prefix)
    /\ \A i \in 1..Len(prefix) : v[i] = prefix[i]

Ok(entry, d) ==
    [result |-> [kind |-> "ok", entry |-> entry, msg |-> "", field |-> "",
                 version |-> <<>>],
     doc |-> Some(d)]
Err(entry, msg, field, version) ==
    [result |-> [kind |-> "err", entry |-> entry, msg |-> msg, field |-> field,
                 version |-> version],
     doc |-> None]
Panic(entry, msg, version) ==
    [result |-> [kind |-> "panic", entry |-> entry, msg |-> msg, field |-> "",
                 version |-> version],
     doc |-> None]

\* ApiVersionError::fmt, run by Error::custom to build the error value.
\* `self.0.len() - 1` on an empty vector panics in a build with overflow
\* checks; without them it wraps to usize::MAX, the loop runs and its first
\* `self.0[i]` is out of bounds.
ApiVersionErrorFmt(entry, v, overflow_checks) ==
    IF Len(v) = 0
    THEN IF overflow_checks
         THEN Panic(entry, "attempt to subtract with overflow", v)
         ELSE Panic(entry, "index out of bounds", v)
    ELSE Err(entry, "incompatible Pandoc API version",
             "pandoc-api-version",
             [i \in 1..(Len(v) - 1) |-> v[i]] \o <<v[Len(v)]>>)

RECURSIVE VisitMapLoop(_, _, _, _, _, _)
\* PandocVisitor::visit_map from member k on, with `meta` and `blocks` as
\* they are before it
VisitMapLoop(entries, k, meta, blocks, entry, env) ==
    IF k > Len(entries)
    THEN IF meta = None
         THEN Err(entry, "missing_field", "meta", <<>>)
         ELSE IF blocks = None
              THEN Err(entry, "missing_field", "blocks", <<>>)
              ELSE Ok(entry, MkPandoc(None, meta[1], blocks[1]))
    ELSE LET m == entries[k]
         IN  CASE m.key = "pandoc-api-version" ->
                    IF ~StartsWith(m.version, <<API_VERSION[1], API_VERSION[2]>>)
                    THEN ApiVersionErrorFmt(entry, m.version, env.overflow_checks)
                    ELSE VisitMapLoop(entries, k + 1, meta, blocks, entry, env)
               [] m.key = "meta" ->
                    IF meta # None
                    THEN Err(entry, "duplicate_field", "meta", <<>>)
                    ELSE VisitMapLoop(entries, k + 1,
                                      Some(MapDeserialize(m.meta, env.autocondense)),
                                      blocks, entry, env)
               [] m.key = "blocks" ->
                    IF blocks # None
                    THEN Err(entry, "duplicate_field", "blocks", <<>>)
                    ELSE VisitMapLoop(entries, k + 1, meta,
                                      Some(BlocksDeserialize(m.blocks, env.autocondense)),
                                      entry, env)
               [] OTHER -> Err(entry, "unknown_field", m.key, <<>>)

\* Pandoc::deserialize: env holds the value of AUTOCONDENSE during the call
\* and whether the build checks integer overflow
PandocDeserialize(j, entry, env) ==
    VisitMapLoop(j.entries, 1, None, None, entry, env)

-----------------------------------------------------------------------------
(* Serialization *)

\* a serializer that writes the items as they are stored
InlinesSerializeStored(i) ==
    [k \in 1..Len(i.items) |-> WInline(i.items[k].t, i.items[k].s, <<>>)]

RECURSIVE InlinesSerialize(_)
\* InlineSerde::from(i.content): the decoration is not carried
InlineSerialize(x) ==
    WInline(x.t, x.s, IF x.t = "Emph" THEN InlinesSerialize(x.c) ELSE <<>>)

\* Inlines::serialize: collect_seq over self.expanded()
InlinesSerialize(i) ==
    LET e == expanded(i)
    IN  [k \in 1..Len(e) |-> InlineSerialize(e[k])]

\* BlocksSerde(value.content), each block as BlockSerde(value.content)
BlocksSerialize(bs) ==
    [k \in 1..Len(bs.content) |->
        WBlock(bs.content[k].t,
               IF bs.content[k].t = "Para"
               THEN InlinesSerialize(bs.content[k].i)
               ELSE <<>>)]

\* Ord of InternedString: the order of the strings, code point by code point
KeyLess(a, b) ==
    \/ /\ Len(a) < Len(b)
       /\ \A i \in 1..Len(a) : a[i] = b[i]
    \/ \E i \in 1..Len(a) :
        /\ i <= Len(b)
        /\ a[i] < b[i]
        /\ \A j \in 1..(i - 1) : a[j] = b[j]

\* the orders in which HashMap::iter may yield the entries of m: the order
\* follows the hashes, which the map's RandomState decides
HashIterations(m) ==
    {it \in [1..Cardinality(m) -> m] :
        \A i, j \in 1..Cardinality(m) : i # j => it[i] # it[j]}

\* a serializer that emits the entries as the map yields them
SortByKeyNone(entries) == entries

RECURSIVE SortByKey(_)
\* entries.sort_by_key(|(k, _)| *k): a stable sort by key
SortByKey(entries) ==
    IF entries = <<>>
    THEN <<>>
    ELSE LET n == Len(entries)
             x == entries[n]
             before == SortByKey(SubSeq(entries, 1, n - 1))
             at == Cardinality({i \in 1..(n - 1) : ~KeyLess(x.k, before[i].k)})
         IN  SubSeq(before, 1, at) \o <<x>> \o SubSeq(before, at + 1, n - 1)

RECURSIVE MetaValueSerialize(_, _)
\* MetaValueSerde(value.content); `it` is the order in which the map of a
\* MetaMap yields its entries (metadata maps nest one level in this model)
MetaValueSerialize(v, it) ==
    CASE v.t = "MetaBool" -> WMetaBool(v.b)
      [] v.t = "MetaInlines" -> WMetaInlines(InlinesSerialize(v.i))
      [] v.t = "MetaMap" ->
            WMetaMap([k \in 1..Len(it) |->
                        WPair(it[k].k, MetaValueSerialize(it[k].v, <<>>))])

\* SortedMap::serialize over the entries as the map yields them (top)
SortedMapSerialize(top, nest) ==
    LET entries == SortByKey(top)
    IN  [k \in 1..Len(entries) |->
            WPair(entries[k].k,
                  MetaValueSerialize(entries[k].v, nest[entries[k].k]))]

\* Pandoc::serialize
PandocSerialize(d, top, nest) ==
    [entries |-> <<WVersion(API_VERSION),
                   WMetaEntry(SortedMapSerialize(top, nest)),
                   WBlocksEntry(BlocksSerialize(d.blocks))>>]

\* the iteration orders of the maps nested in the values of m, by key
NestIterations(m) ==
    {nest \in [MapKeys(m) -> UNION {HashIterations(p.v.m) : p \in m}] :
        \A p \in m : nest[p.k] \in HashIterations(p.v.m)}

-----------------------------------------------------------------------------
(* Documents handed to the deserializer *)

VersionComponents == {0, 1, 2, 5, 22, 23}
VersionArrays == SeqsUpTo(VersionComponents, MaxVersionLen)

\* documents that differ in the version array only
VersionDocs ==
    {[entries |-> <<WVersion(v), WMetaEntry(<<>>), WBlocksEntry(<<>>)>>] :
        v \in VersionArrays}

EnvelopeMembers ==
    {WVersion(API_VERSION), WMetaEntry(<<>>), WBlocksEntry(<<>>), WUnknown}

\* top-level objects with any members, in any order
EnvelopeDocs ==
    {[entries |-> ms] : ms \in SeqsUpTo(EnvelopeMembers, MaxEntries)}

WStr(t) == WInline("Str", t, <<>>)
WSpace == WInline("Space", <<>>, <<>>)
WSoftBreak == WInline("SoftBreak", <<>>, <<>>)
WLineBreak == WInline("LineBreak", <<>>, <<>>)

WireInlineElems ==
    {WStr(t) : t \in ShortTexts(SeqChars)}
    \cup {WSpace, WSoftBreak, WLineBreak}
    \cup {WInline("Emph", <<>>, <<WStr(<<97>>), WSpace>>),
          WInline("Emph", <<>>, <<WStr(<<97>>), WStr(<<98>>)>>),
          WInline("Code", <<97, CHAR_SPACE>>, <<>>)}

\* sequences with at most one element that has content of its own
WireInlines ==
    {w \in SeqsUpTo(WireInlineElems, MaxWireLen) :
        Cardinality({i \in 1..Len(w) : w[i].t \in {"Emph", "Code"}}) <= 1}
    \cup {<<WStr(TextSentinel)>>, <<WStr(TextHi), WSpace, WStr(TextThere)>>}

\* documents with one paragraph
InlineDocs ==
    {[entries |-> <<WVersion(API_VERSION), WMetaEntry(<<>>),
                    WBlocksEntry(<<WBlock("Para", w)>>)>>] :
        w \in WireInlines}

KeyA == <<97>>
KeyB == <<98>>
KeyAlpha == <<97, 108, 112, 104, 97>>
KeyZeta == <<122, 101, 116, 97>>

WireMetaValues ==
    {WMetaBool(TRUE),
     WMetaInlines(<<WStr(<<97>>), WSpace, WStr(<<98>>)>>),
     WMetaMap(<<WPair(KeyA, WMetaBool(TRUE)), WPair(KeyB, WMetaBool(FALSE))>>),
     WMetaMap(<<WPair(KeyB, WMetaBool(FALSE)), WPair(KeyA, WMetaBool(TRUE))>>)}

WireMetaPairs == {WPair(k, v) : k \in {KeyA, KeyB}, v \in WireMetaValues}

\* metadata objects whose members have distinct keys
WireMetas ==
    {ps \in SeqsUpTo(WireMetaPairs, MaxMeta) :
        \A i, j \in 1..Len(ps) : i # j => ps[i].k # ps[j].k}

\* documents with metadata, under any version of the supported major/minor
MetaDocs ==
    {[entries |-> <<WVersion(v), WMetaEntry(ps),
                    WBlocksEntry(<<WBlock("HorizontalRule", <<>>)>>)>>] :
        v \in {API_VERSION, <<1, 23, 5>>, <<1, 23>>}, ps \in WireMetas}

WireDocs == VersionDocs \cup EnvelopeDocs \cup InlineDocs \cup MetaDocs

-----------------------------------------------------------------------------
(* Deserializing and serializing *)

InitSerde ==
    /\ ConvIdle
    /\ wire \in WireDocs
    /\ result = NoResult
    /\ doc = None
    /\ inserted = <<>>
    /\ outputs = {}
    /\ AUTOCONDENSE = TRUE
    /\ OtherIdle

\* what a deserialization leaves behind
Deserialized(r) ==
    /\ result' = r.result
    /\ doc' = r.doc
    /\ inserted' = <<>>
    /\ outputs' = {}
    /\ UNCHANGED wire

\* Pandoc::deserialize(wire) by the calling thread; the build either checks
\* integer overflow or does not
Deserialize ==
    \E overflow_checks \in BOOLEAN :
        /\ Deserialized(PandocDeserialize(wire, "deserialize",
                [autocondense |-> AUTOCONDENSE,
                 overflow_checks |-> overflow_checks]))
        /\ UNCHANGED <<AUTOCONDENSE, convVars, otherVars>>

\* Pandoc::deserialize_noautocondense(wire): no_autocondense sets the flag
\* to false, runs the block under catch_unwind and sets the flag to `old`
DeserializeNoAutocondense ==
    \E overflow_checks \in BOOLEAN :
        LET old == AUTOCONDENSE
        IN  /\ Deserialized(PandocDeserialize(wire, "deserialize_noautocondense",
                    [autocondense |-> FALSE,
                     overflow_checks |-> overflow_checks]))
            /\ AUTOCONDENSE' = old
            /\ UNCHANGED <<convVars, otherVars>>

\* serde_json::to_value(&doc): every map yields its entries in some order
Serialize ==
    /\ doc # None
    /\ Cardinality(outputs) < MaxOutputs
    /\ \E top \in HashIterations(doc[1].meta), nest \in NestIterations(doc[1].meta) :
            outputs' = outputs \cup {PandocSerialize(doc[1], top, nest)}
    /\ UNCHANGED <<wire, result, doc, inserted, AUTOCONDENSE, convVars, otherVars>>

NextSerde == Deserialize \/ DeserializeNoAutocondense \/ Serialize

SpecSerde == InitSerde /\ [][NextSerde]_vars

-----------------------------------------------------------------------------
(* Building a document in memory *)

MetaValues ==
    {MetaBool(TRUE),
     MetaInlines(MkInlines(Some(1), "Expanded", <<Str(<<97>>), Space>>)),
     MetaMap({[k |-> KeyB, v |-> MetaBool(FALSE)],
              [k |-> KeyA, v |-> MetaBool(TRUE)]})}

InsertKeys == {KeyZeta, KeyAlpha, KeyA}

\* Pandoc { decoration: None, meta: HashMap::new(), blocks: empty }
InitMeta ==
    /\ ConvIdle
    /\ wire = NoWire
    /\ result = NoResult
    /\ doc = Some(MkPandoc(None, EmptyMap, MkBlocks(None, <<>>)))
    /\ inserted = <<>>
    /\ outputs = {}
    /\ AUTOCONDENSE = TRUE
    /\ OtherIdle

\* doc.meta.insert(k, v)
InsertMeta ==
    /\ doc # None
    /\ Len(inserted) < MaxInserts
    /\ \E k \in InsertKeys, v \in MetaValues :
            /\ doc' = Some([doc[1] EXCEPT !.meta = HashMapInsert(@, k, v)])
            /\ inserted' = Append(inserted, k)
    /\ outputs' = {}
    /\ UNCHANGED <<wire, result, AUTOCONDENSE, convVars, otherVars>>

NextMeta == InsertMeta \/ Serialize

SpecMeta == InitMeta /\ [][NextMeta]_vars

-----------------------------------------------------------------------------
(* Deserializing on two threads *)

Entries == {"deserialize", "deserialize_noautocondense"}

ThreadPara == <<WStr(<<97>>), WSpace, WStr(<<98>>)>>
ThreadEmph == <<WInline("Emph", <<>>, <<WStr(<<97>>), WSpace>>)>>

\* the inline sequences of the document a call reads, in text order
ThreadDocs == {<<ThreadPara>>, <<ThreadEmph>>, <<ThreadPara, ThreadEmph>>}

\* a flag that is one static of the process, shared by all threads
CellShared(t) == 1

\* AUTOCONDENSE.with: the instance of the thread-local that thread t gets
Cell(t) == t

InitThreads ==
    /\ ConvIdle
    /\ SerdeIdle
    /\ visit = NoVisit
    /\ threads \in [Threads -> {MkThread(e, d) : e \in Entries, d \in ThreadDocs}]

\* a no_autocondense that lets a panic of the block unwind through it
catch_unwindNone(entry, exit) ==
    IF entry = "deserialize" \/ exit = "panic" THEN "done" ELSE "restore"

\* where a call goes on when the deserializer has left by `exit`:
\* Pandoc::deserialize is over, and no_autocondense, which runs the block
\* under catch_unwind(AssertUnwindSafe(block)), goes on to cell.set(old)
catch_unwind(entry, exit) ==
    IF entry = "deserialize" THEN "done" ELSE "restore"

\* Pandoc::deserialize is entered directly
DeserializeBegin(t) ==
    /\ threads[t].pc = "idle"
    /\ threads[t].entry = "deserialize"
    /\ threads' = [threads EXCEPT ![t].pc = "running"]
    /\ UNCHANGED <<convVars, serdeVars, visit>>

\* no_autocondense: let old = cell.get()
NoAutocondenseGet(t) ==
    /\ threads[t].pc = "idle"
    /\ threads[t].entry = "deserialize_noautocondense"
    /\ threads' = [threads EXCEPT ![t].old = threads[Cell(t)].cell,
                                  ![t].pc = "got"]
    /\ UNCHANGED <<convVars, serdeVars, visit>>

\* no_autocondense: cell.set(false), then the block is run
NoAutocondenseSet(t) ==
    /\ threads[t].pc = "got"
    /\ threads' = [threads EXCEPT ![Cell(t)].cell = FALSE,
                                  ![t].pc = "running"]
    /\ UNCHANGED <<convVars, serdeVars, visit>>

\* Inlines::deserialize of the next inline sequence of the document
InlinesDeserializeStep(t) ==
    /\ threads[t].pc = "running"
    /\ threads[t].todo # <<>>
    /\ threads' =
          [threads EXCEPT
              ![t].out = Append(@, InlinesDeserialize(Head(threads[t].todo),
                                                      threads[Cell(t)].cell)),
              ![t].todo = Tail(@)]
    /\ UNCHANGED <<convVars, serdeVars, visit>>

\* Pandoc::deserialize returns a document
DeserializeEnd(t) ==
    /\ threads[t].pc = "running"
    /\ threads[t].todo = <<>>
    /\ threads' =
          [threads EXCEPT
              ![t].exit = "value",
              ![t].pc = catch_unwind(threads[t].entry, "value")]
    /\ UNCHANGED <<convVars, serdeVars, visit>>

\* Pandoc::deserialize returns an error or panics: no document is returned
DeserializeFail(t) ==
    /\ threads[t].pc = "running"
    /\ \E exit \in {"error", "panic"} :
          threads' =
              [threads EXCEPT
                  ![t].exit = exit,
                  ![t].out = <<>>,
                  ![t].pc = catch_unwind(threads[t].entry, exit)]
    /\ UNCHANGED <<convVars, serdeVars, visit>>

\* no_autocondense: cell.set(old), then the result is returned or the panic
\* resumed
NoAutocondenseRestore(t) ==
    /\ threads[t].pc = "restore"
    /\ threads' = [threads EXCEPT ![Cell(t)].cell = threads[t].old,
                                  ![t].pc = "done"]
    /\ UNCHANGED <<convVars, serdeVars, visit>>

\* the thread goes on to its next call
NextCall(t) ==
    /\ threads[t].pc = "done"
    /\ threads[t].calls < MaxCalls
    /\ \E e \in Entries, d \in ThreadDocs :
          threads' = [threads EXCEPT
                          ![t] = [MkThread(e, d) EXCEPT
                                      !.cell = threads[t].cell,
                                      !.calls = threads[t].calls + 1,
                                      !.prev = <<threads[t].entry,
                                                 threads[t].exit>>]]
    /\ UNCHANGED <<convVars, serdeVars, visit>>

NextThreads ==
    \E t \in Threads :
        \/ DeserializeBegin(t)
        \/ NoAutocondenseGet(t)
        \/ NoAutocondenseSet(t)
        \/ InlinesDeserializeStep(t)
        \/ DeserializeEnd(t)
        \/ DeserializeFail(t)
        \/ NoAutocondenseRestore(t)
        \/ NextCall(t)

SpecThreads == InitThreads /\ [][NextThreads]_vars

-----------------------------------------------------------------------------
(* A decorated document written by one filter and read by the next *)

RECURSIVE BareInlines(_)
\* the inline sequence i without any decoration, at every depth
BareInlines(i) ==
    [d |-> None, rep |-> i.rep,
     items |-> [k \in 1..Len(i.items) |->
                  [i.items[k] EXCEPT
                      !.d = None,
                      !.c = IF i.items[k].t = "Emph" THEN BareInlines(@) ELSE @]]]

RECURSIVE BareMeta(_)
\* the metadata map m without any decoration, at every depth
BareMeta(m) ==
    {[k |-> p.k,
      v |-> [p.v EXCEPT
                !.decoration = None,
                !.i = IF p.v.t = "MetaInlines" THEN BareInlines(@) ELSE @,
                !.m = BareMeta(@)]] : p \in m}

\* the document that differs from d in the decorations only and has none
BareDocument(d) ==
    MkPandoc(None, BareMeta(d.meta),
             MkBlocks(None,
                      [k \in 1..Len(d.blocks.content) |->
                          [d.blocks.content[k] EXCEPT
                              !.decoration = None,
                              !.i = IF d.blocks.content[k].t = "Para"
                                    THEN BareInlines(@) ELSE @]]))

DecoratedPara ==
    MkInlines(Some(1), "Condensed",
              <<[Leaf(<<97, CHAR_SPACE>>) EXCEPT !.d = Some(2)],
                Emph(Some(3), MkInlines(Some(4), "Expanded",
                                        <<[Str(<<97>>) EXCEPT !.d = Some(5)], Space>>)),
                Code(Some(6), TextHi)>>)

DecoratedBlocks ==
    {MkBlocks(Some(7), bs) :
        bs \in SeqsUpTo({MkBlock(Some(8), "Para", DecoratedPara),
                         MkBlock(Some(9), "HorizontalRule", NoInlines)},
                        MaxBlocks)}

DecoratedValues ==
    {[MetaBool(TRUE) EXCEPT !.decoration = Some(10)],
     [MetaInlines(DecoratedPara) EXCEPT !.decoration = Some(11)],
     [MetaMap({[k |-> KeyB, v |-> [MetaBool(FALSE) EXCEPT !.decoration = Some(12)]],
               [k |-> KeyA, v |-> MetaBool(TRUE)]})
        EXCEPT !.decoration = Some(13)]}

DecoratedMetas ==
    {EmptyMap} \cup {HashMapInsert(EmptyMap, KeyA, v) : v \in DecoratedValues}

\* documents with decorations, and the documents that differ from them in
\* the decorations only
DecoratedDocs ==
    LET docs == {MkPandoc(Some(14), m, bs) :
                    m \in DecoratedMetas, bs \in DecoratedBlocks}
    IN  docs \cup {BareDocument(d) : d \in docs}

\* a filter holds a document it has built or decorated
InitWire ==
    /\ ConvIdle
    /\ OtherIdle
    /\ wire = NoWire
    /\ result = NoResult
    /\ doc \in {Some(d) : d \in DecoratedDocs}
    /\ inserted = <<>>
    /\ outputs = {}
    /\ AUTOCONDENSE = TRUE

\* what the filter wrote is the input of the next filter
Send ==
    /\ wire = NoWire
    /\ \E o \in outputs : wire' = o
    /\ UNCHANGED <<result, doc, inserted, outputs, AUTOCONDENSE, convVars, otherVars>>

\* the next filter reads its input
Receive ==
    /\ wire # NoWire
    /\ result = NoResult
    /\ (Deserialize \/ DeserializeNoAutocondense)

NextWire == Serialize \/ Send \/ Receive

SpecWire == InitWire /\ [][NextWire]_vars

-----------------------------------------------------------------------------
(* Properties of the serialization adapter *)

CountKey(j, key) ==
    Cardinality({i \in 1..Len(j.entries) : j.entries[i].key = key})

\* each of the three envelope fields occurs exactly once and no other key
WellFormedEnvelope(j) ==
    /\ \A f \in 1..Len(FIELDS) : CountKey(j, FIELDS[f]) = 1
    /\ Len(j.entries) = Len(FIELDS)

Member(j, key) ==
    j.entries[CHOOSE i \in 1..Len(j.entries) : j.entries[i].key = key]

VersionOf(j) == Member(j, "pandoc-api-version").version

\* the first two components are the supported major and minor
Compatible(v) == Len(v) >= 2 /\ v[1] = 1 /\ v[2] = 23

Deserializing == result.kind # "none" /\ WellFormedEnvelope(wire)

\* C4: a version array is accepted if and only if its first two components
\* are 1 and 23, whatever follows them: [1,23,5] is accepted, [2,0,0] and
\* [1,22,0] are rejected with a version-incompatibility error.
C4_VersionGate ==
    Deserializing =>
        LET v == VersionOf(wire)
            rejected == /\ result.kind = "err"
                        /\ result.msg = "incompatible Pandoc API version"
        IN  /\ result.kind = "ok" <=> Compatible(v)
            /\ v = <<1, 23, 5>> => result.kind = "ok" /\ doc # None
            /\ v = <<2, 0, 0>> => rejected
            /\ v = <<1, 22, 0>> => rejected

C4_Witness ==
    /\ Deserializing
    /\ VersionOf(wire) = <<1, 23, 5>>
    /\ result.kind = "ok"

\* C5: every incompatible version array, of any length, makes
\* deserialization return an error value that carries the offending version;
\* building or formatting that error never panics.
C5_ErrorValue ==
    (Deserializing /\ ~Compatible(VersionOf(wire))) =>
        /\ result.kind = "err"
        /\ result.version = VersionOf(wire)

\* C6: deserialization succeeds only if each of pandoc-api-version, meta and
\* blocks occurs exactly once and no other key occurs.
C6_Envelope == result.kind = "ok" => WellFormedEnvelope(wire)

RECURSIVE NormalInlines(_)
\* no empty Str, no two adjacent Str, no reserved code point inside a Str,
\* at every depth of the wire inline sequence w
NormalInlines(w) ==
    \A i \in 1..Len(w) :
        /\ w[i].t = "Str" =>
            /\ w[i].s # <<>>
            /\ \A k \in 1..Len(w[i].s) : w[i].s[k] \notin Sentinels
            /\ i < Len(w) => w[i + 1].t # "Str"
        /\ NormalInlines(w[i].c)

RECURSIVE NormalMeta(_)
NormalMeta(ps) ==
    \A i \in 1..Len(ps) : NormalInlines(ps[i].v.i) /\ NormalMeta(ps[i].v.m)

\* every inline sequence of the document j is in that form
NormalDoc(j) ==
    /\ NormalMeta(Member(j, "meta").meta)
    /\ \A b \in 1..Len(Member(j, "blocks").blocks) :
            NormalInlines(Member(j, "blocks").blocks[b].i)

RECURSIVE UnorderedMeta(_)
\* a metadata object as the set of its members, nested objects likewise
UnorderedMeta(ps) ==
    {[k |-> ps[i].k,
      v |-> [t |-> ps[i].v.t, b |-> ps[i].v.b, i |-> ps[i].v.i,
             m |-> UnorderedMeta(ps[i].v.m)]] : i \in 1..Len(ps)}

\* structural equality of two documents, the order of the members of every
\* object left aside
JsonEq(a, b) ==
    /\ WellFormedEnvelope(a)
    /\ WellFormedEnvelope(b)
    /\ VersionOf(a) = VersionOf(b)
    /\ UnorderedMeta(Member(a, "meta").meta) = UnorderedMeta(Member(b, "meta").meta)
    /\ Member(a, "blocks").blocks = Member(b, "blocks").blocks

RoundTrip ==
    /\ result.kind = "ok"
    /\ result.entry = "deserialize"
    /\ WellFormedEnvelope(wire)

\* C1 (as stated): for every well-formed document j, with any patch
\* component and any inline sequences, serialize(deserialize(j)) is
\* structurally equal to j except for the order of metadata keys.
C1_Original == RoundTrip => \A o \in outputs : JsonEq(o, wire)

\* C1 (amended): the same for every well-formed j whose version array is
\* [1,23,1] and whose inline sequences hold no empty Str, no two adjacent Str
\* and no Str with a reserved code point.
C1_RoundTrip ==
    (RoundTrip /\ VersionOf(wire) = <<1, 23, 1>> /\ NormalDoc(wire)) =>
        \A o \in outputs : JsonEq(o, wire)

C1_Witness ==
    /\ RoundTrip
    /\ VersionOf(wire) = <<1, 23, 1>>
    /\ NormalDoc(wire)
    /\ outputs # {}
    /\ \E b \in 1..Len(Member(wire, "blocks").blocks) :
        LET w == Member(wire, "blocks").blocks[b].i
        IN  /\ Len(w) = 3
            /\ w[1].t = "Str"
            /\ w[2].t = "SoftBreak"
            /\ w[3].t = "Emph"
            /\ doc[1].blocks.content[b].i.rep = "Condensed"

RECURSIVE LexLess(_, _)
\* a precedes b in the lexicographic order of strings
LexLess(a, b) ==
    IF b = <<>> THEN FALSE
    ELSE IF a = <<>> THEN TRUE
    ELSE IF Head(a) # Head(b) THEN Head(a) < Head(b)
    ELSE LexLess(Tail(a), Tail(b))

MetaOf(o) == Member(o, "meta").meta

\* C7: whatever the order in which keys were inserted into the top-level
\* metadata map, serialization emits the top-level metadata entries in
\* strictly increasing lexicographic key order, each key exactly once.
C7_SortedMeta ==
    doc # None =>
        \A o \in outputs :
            /\ \A i \in 1..(Len(MetaOf(o)) - 1) :
                    LexLess(MetaOf(o)[i].k, MetaOf(o)[i + 1].k)
            /\ {MetaOf(o)[i].k : i \in 1..Len(MetaOf(o))} = MapKeys(doc[1].meta)
            /\ Len(MetaOf(o)) = Cardinality(doc[1].meta)

C7_Witness ==
    /\ inserted = <<KeyZeta, KeyAlpha, KeyA>>
    /\ \E o \in outputs :
        /\ Len(MetaOf(o)) = 3
        /\ MetaOf(o)[1].k = KeyA
        /\ MetaOf(o)[2].k = KeyAlpha
        /\ MetaOf(o)[3].k = KeyZeta

\* C8: structurally equal documents serialize to identical output, the key
\* order of the metadata maps nested inside metadata values included: all
\* serializations of the document agree.
C8_Deterministic == Cardinality(outputs) <= 1

RECURSIVE ExpandedWire(_)
\* the wire form of the Expanded sequence obtained by expanding i, nested
\* sequences likewise
ExpandedWire(i) ==
    LET e == expand(i).items
    IN  [k \in 1..Len(e) |->
            [t |-> e[k].t, s |-> e[k].s,
             c |-> IF e[k].t = "Emph" THEN ExpandedWire(e[k].c) ELSE <<>>]]

RECURSIVE WireLeaves(_)
\* every leaf of the wire sequence w, at every depth, is one of the four
\* Expanded leaves
WireLeaves(w) ==
    \A k \in 1..Len(w) :
        /\ w[k].t \in {"Str", "Space", "SoftBreak", "LineBreak", "Emph", "Code"}
        /\ WireLeaves(w[k].c)

BlocksOf(o) == Member(o, "blocks").blocks

\* the value of key k in the metadata object ps
WireValue(ps, k) == ps[CHOOSE n \in 1..Len(ps) : ps[n].k = k].v

\* C12: serializing an inline sequence always emits the Expanded form: every
\* leaf on the wire is one of Str, Space, SoftBreak, LineBreak, and a
\* Condensed value serializes to the same output as the Expanded sequence
\* obtained by expanding it.
C12_CanonicalWire ==
    doc # None =>
        \A o \in outputs :
            /\ \A b \in 1..Len(doc[1].blocks.content) :
                LET i == doc[1].blocks.content[b].i
                IN  doc[1].blocks.content[b].t = "Para" =>
                        /\ WireLeaves(BlocksOf(o)[b].i)
                        /\ BlocksOf(o)[b].i = ExpandedWire(i)
                        /\ InlinesSerialize(i) = InlinesSerialize(expand(i))
            /\ \A p \in doc[1].meta :
                p.v.t = "MetaInlines" =>
                    /\ WireLeaves(WireValue(MetaOf(o), p.k).i)
                    /\ WireValue(MetaOf(o), p.k).i = ExpandedWire(p.v.i)

C12_Witness ==
    /\ doc # None
    /\ Len(doc[1].blocks.content) = 1
    /\ doc[1].blocks.content[1].i.rep = "Condensed"
    /\ doc[1].blocks.content[1].i.items = <<Leaf(<<97, CHAR_SPACE, 97>>)>>
    /\ \E o \in outputs :
            BlocksOf(o)[1].i = <<WStr(<<97>>), WSpace, WStr(<<97>>)>>

RECURSIVE InlinesIn(_, _)
\* the inline sequence i and every inline sequence nested in it are in
\* representation rep
InlinesIn(i, rep) ==
    /\ i.rep = rep
    /\ \A k \in 1..Len(i.items) :
            i.items[k].t = "Emph" => InlinesIn(i.items[k].c, rep)

RECURSIVE MetaIn(_, _)
MetaIn(m, rep) ==
    \A p \in m :
        /\ p.v.t = "MetaInlines" => InlinesIn(p.v.i, rep)
        /\ p.v.t = "MetaMap" => MetaIn(p.v.m, rep)

\* every inline sequence of the document d, at every depth, is in rep
DocumentIn(d, rep) ==
    /\ MetaIn(d.meta, rep)
    /\ \A b \in 1..Len(d.blocks.content) :
            d.blocks.content[b].t = "Para" => InlinesIn(d.blocks.content[b].i, rep)

\* C13: default deserialization produces a document whose inline sequences
\* are all Condensed, at every depth; deserialize_noautocondense produces
\* one whose inline sequences are all Expanded.
C13_Representation ==
    result.kind = "ok" =>
        /\ doc # None
        /\ result.entry = "deserialize" => DocumentIn(doc[1], "Condensed")
        /\ result.entry = "deserialize_noautocondense" =>
                DocumentIn(doc[1], "Expanded")

C13_Witness ==
    /\ result.kind = "ok"
    /\ result.entry = "deserialize_noautocondense"
    /\ Len(doc[1].blocks.content) = 1
    /\ LET i == doc[1].blocks.content[1].i
       IN  /\ i.rep = "Expanded"
           /\ Len(i.items) = 2
           /\ i.items[1].t = "Str"
           /\ i.items[2].t = "Emph"
           /\ i.items[2].c.rep = "Expanded"
           /\ Len(i.items[2].c.items) = 2

\* C14: whether a call auto-condenses depends only on its entry point:
\* under every interleaving of a default deserialization on one thread with a
\* deserialize_noautocondense call on another, the default call yields only
\* Condensed inline sequences and the opt-out call only Expanded ones.
C14_PerCall ==
    \A t \in Threads :
        \A k \in 1..Len(threads[t].out) :
            InlinesIn(threads[t].out[k],
                      IF threads[t].entry = "deserialize"
                      THEN "Condensed" ELSE "Expanded")

\* both calls are under way, each between two of its inline sequences
C14_Witness ==
    /\ threads[1].entry = "deserialize"
    /\ threads[2].entry = "deserialize_noautocondense"
    /\ \A t \in Threads :
        /\ threads[t].pc = "running"
        /\ Len(threads[t].out) = 1
        /\ Len(threads[t].todo) = 1
    /\ threads[1].out[1].rep = "Condensed"
    /\ threads[2].out[1].rep = "Expanded"

\* C29: for every well-formed inline sequence on the wire,
\* deserialize_noautocondense followed by serialization reproduces the
\* sequence element for element: an empty Str, adjacent Str and a Str that
\* holds white space or a sentinel code point come back as they were.
C29_ExactRoundTrip ==
    (/\ result.kind = "ok"
     /\ result.entry = "deserialize_noautocondense"
     /\ WellFormedEnvelope(wire)) =>
        \A o \in outputs :
            /\ BlocksOf(o) = BlocksOf(wire)
            /\ \A n \in 1..Len(MetaOf(wire)) :
                    MetaOf(wire)[n].v.t = "MetaInlines" =>
                        WireValue(MetaOf(o), MetaOf(wire)[n].k).i
                            = MetaOf(wire)[n].v.i

\* an empty Str, a Str of one space and a Str of one sentinel, adjacent,
\* have been read without condensing and written again
C29_Witness ==
    /\ result.kind = "ok"
    /\ result.entry = "deserialize_noautocondense"
    /\ WellFormedEnvelope(wire)
    /\ Len(BlocksOf(wire)) = 1
    /\ BlocksOf(wire)[1].i =
            <<WStr(<<>>), WStr(<<CHAR_SPACE>>), WStr(<<CONDENSED_LITERAL_SPACE>>)>>
    /\ outputs # {}

C22_Restored ==
    \A t \in Threads :
        /\ threads[t].pc \in {"idle", "done"} => threads[t].cell = TRUE
        /\ threads[t].entry = "deserialize" =>
                \A k \in 1..Len(threads[t].out) :
                    InlinesIn(threads[t].out[k], "Condensed")

\* a default call has read its document on a thread whose call before, an
\* opt-out call, panicked
C22_Witness ==
    /\ threads[1].prev = <<"deserialize_noautocondense", "panic">>
    /\ threads[1].entry = "deserialize"
    /\ threads[1].pc = "done"
    /\ threads[1].exit = "value"
    /\ Len(threads[1].out) = 2
    /\ threads[1].out[1].rep = "Condensed"

-----------------------------------------------------------------------------
(* Data model: the whole tree, as the traversals see it *)

\* A node of the tree. kind is its type, variant the variant of its content,
\* rep the representation of an Inlines; id stands for the data of the node
\* that is no node itself (attributes, text, keys, numbers); f1..f4 hold its
\* child nodes, field by field in declaration order, a single child as a
\* sequence of one and an Option as a sequence of none or one.
Node(kind, variant, d, rep, f1, f2, f3, f4) ==
    [kind |-> kind, variant |-> variant, id |-> <<>>, decoration |-> d,
     rep |-> rep, order |-> "", f1 |-> f1, f2 |-> f2, f3 |-> f3, f4 |-> f4]
\* n, a node that holds a HashMap, with the order its iterator yields the
\* values in: as f1 lists them, or the other way round
Hashed(n, order) == [n EXCEPT !.order = order]

\* Pandoc { decoration, meta, blocks }: meta as the values of the map
PandocNode(d, order, meta, blocks) ==
    Hashed(Node("Pandoc", "", d, "", meta, <<blocks>>, <<>>, <<>>), order)
\* MetaValue { decoration, content }: Map(m), List(l), Inlines(i), Blocks(b)
\* hold their children in f1; Bool and String hold none
MetaValueNode(d, variant, children) ==
    Node("MetaValue", variant, d, "", children, <<>>, <<>>, <<>>)
\* MetaValueContent::Map(m)
MetaMapNode(d, order, m) == Hashed(MetaValueNode(d, "Map", m), order)
\* Blocks { decoration, content }
BlocksNode(d, content) == Node("Blocks", "", d, "", content, <<>>, <<>>, <<>>)
\* Block { decoration, content }
BlockNode(d, variant, f1, f2) == Node("Block", variant, d, "", f1, f2, <<>>, <<>>)
\* one (Inlines, Vector<Blocks>) of a DefinitionList
DefinitionItem(term, definitions) ==
    Node("DefinitionItem", "", None, "", <<term>>, definitions, <<>>, <<>>)
\* Inlines { decoration, content }: Condensed(items) or Expanded(items)
InlinesNode(d, rep, items) == Node("Inlines", "", d, rep, items, <<>>, <<>>, <<>>)
\* Inline { decoration, content }
InlineNode(d, variant, f1, f2) == Node("Inline", variant, d, "", f1, f2, <<>>, <<>>)
\* Citation { decoration, id, prefix, suffix, mode, num, hash }
CitationNode(d, prefix, suffix) ==
    Node("Citation", "", d, "", <<prefix>>, <<suffix>>, <<>>, <<>>)
\* Caption { decoration, short, full }
CaptionNode(d, short, full) == Node("Caption", "", d, "", short, <<full>>, <<>>, <<>>)
\* Table { decoration, attrs, caption, colspecs, head, body, foot }
TableNode(d, caption, head, body, foot) ==
    Node("Table", "", d, "", <<caption>>, <<head>>, body, <<foot>>)
\* TableHead { decoration, attrs, rows }
TableHeadNode(d, rows) == Node("TableHead", "", d, "", rows, <<>>, <<>>, <<>>)
\* TableBody { decoration, attrs, row_head_cols, intermediate_head, rows }
TableBodyNode(d, intermediate_head, rows) ==
    Node("TableBody", "", d, "", intermediate_head, rows, <<>>, <<>>)
\* TableFoot { decoration, attrs, rows }
TableFootNode(d, rows) == Node("TableFoot", "", d, "", rows, <<>>, <<>>, <<>>)
\* Row { decoration, attrs, cells }
RowNode(d, cells) == Node("Row", "", d, "", cells, <<>>, <<>>, <<>>)
\* Cell { decoration, attrs, alignment, row_span, col_span, blocks }
CellNode(d, blocks) == Node("Cell", "", d, "", <<blocks>>, <<>>, <<>>, <<>>)

\* the child nodes of n: every node one of its fields holds
Children(n) == n.f1 \o n.f2 \o n.f3 \o n.f4

RECURSIVE Labelled(_, _)
RECURSIVE LabelledAll(_, _, _)
\* n with every node given the data that tells it from all others: its path
Labelled(n, path) ==
    [n EXCEPT !.id = path,
              !.f1 = LabelledAll(n.f1, path, 1),
              !.f2 = LabelledAll(n.f2, path, 2),
              !.f3 = LabelledAll(n.f3, path, 3),
              !.f4 = LabelledAll(n.f4, path, 4)]
LabelledAll(ns, path, slot) ==
    [k \in 1..Len(ns) |-> Labelled(ns[k], path \o <<slot, k>>)]

-----------------------------------------------------------------------------
(* The traversals: walk, walk_decorations and query *)

\* the implementations of Map a walk is given: the trait's defaults, and one
\* whose every hook returns its node with another decoration
Maps == {"default", "marking"}
\* the decoration the marking hooks put on the node they return
Marked == Some(99)
\* hooks that return their node without its decoration
MapDefaultCleared(hook, n) == [n EXCEPT !.decoration = None]
\* the default methods of trait Map: each returns the node it was passed
MapDefault(hook, n) == n
MapMarking(hook, n) == [n EXCEPT !.decoration = Marked]
\* map.<hook>(n)
MapCall(M, hook, n) ==
    IF M = "default" THEN MapDefault(hook, n) ELSE MapMarking(hook, n)

\* the methods of trait DecorationMap, in declaration order
DecorationMethods ==
    <<"map_pandoc_decoration", "map_meta_value_decoration",
      "map_blocks_decoration", "map_block_decoration",
      "map_inlines_decoration", "map_inline_decoration",
      "map_citation_decoration", "map_table_decoration",
      "map_table_head_decoration", "map_table_body_decoration",
      "map_table_foot_decoration", "map_row_decoration",
      "map_cell_decoration", "map_caption_decoration">>
\* the implementations of DecorationMap a walk is given: a function between
\* two SimpleSchemes, and one with a function of its own for each method
DecorationMaps == {"simple", "by kind"}
\* the function F: Fn(A) -> B a SimpleScheme is converted with
F(input) == input + 100
\* impl DecorationMap<SimpleScheme<A>, SimpleScheme<B>> for F
SimpleSchemeCall(method, input) ==
    CASE method = "map_pandoc_decoration" -> F(input)
      [] method = "map_meta_value_decoration" -> F(input)
      [] method = "map_blocks_decoration" -> F(input)
      [] method = "map_block_decoration" -> F(input)
      [] method = "map_inlines_decoration" -> F(input)
      [] method = "map_inline_decoration" -> F(input)
      [] method = "map_citation_decoration" -> F(input)
      [] method = "map_table_decoration" -> F(input)
      [] method = "map_table_head_decoration" -> F(input)
      [] method = "map_table_body_decoration" -> F(input)
      [] method = "map_table_foot_decoration" -> F(input)
      [] method = "map_row_decoration" -> F(input)
      [] method = "map_cell_decoration" -> F(input)
      [] method = "map_caption_decoration" -> F(input)
\* a DecorationMap whose methods are fourteen different functions
ByKindCall(method, input) ==
    input + 1000 * (CHOOSE k \in DOMAIN DecorationMethods : DecorationMethods[k] = method)
\* map.<method>(input)
DecorationCall(M, method, input) ==
    IF M = "simple" THEN SimpleSchemeCall(method, input)
    ELSE ByKindCall(method, input)

Reverse(s) == [k \in 1..Len(s) |-> s[Len(s) + 1 - k]]
\* the values of the HashMap of n, in the order its iterator yields them
IntoIter(n) == IF n.order = "reversed" THEN Reverse(n.f1) ELSE n.f1

RECURSIVE JoinedFrom(_, _)
JoinedFrom(ts, k) ==
    IF k > Len(ts) THEN <<>> ELSE ts[k] \o JoinedFrom(ts, k + 1)
\* what the calls of a loop yield: for the first element, then for the
\* second, and so on
Joined(ts) == LET each == ts \o <<>> IN JoinedFrom(each, 1)

\* A traversal function names, in the order it evaluates them, the fields of
\* its node that it traverses: the slot of the field and the type of the
\* nodes in it.
Holds(slot, ty) == [slot |-> slot, ty |-> ty]
\* the nodes a node holds in a slot
Field(n, slot) ==
    CASE slot = 1 -> n.f1 [] slot = 2 -> n.f2 [] slot = 3 -> n.f3 [] slot = 4 -> n.f4
\* the type of the nodes in a slot, "" for a slot not named
TypeIn(fs, slot) ==
    IF \E i \in DOMAIN fs : fs[i].slot = slot
    THEN fs[CHOOSE i \in DOMAIN fs : fs[i].slot = slot].ty
    ELSE ""
\* a traversal that leaves out the field it names last, when it names two
\* or more
VisitedButLast(n, fs) ==
    LET named == IF Len(fs) > 1 THEN SubSeq(fs, 1, Len(fs) - 1) ELSE fs
    IN  Joined([i \in DOMAIN named |->
            LET ns == IF named[i].slot = 1 THEN IntoIter(n)
                      ELSE Field(n, named[i].slot)
            IN  [k \in DOMAIN ns |-> [node |-> ns[k], ty |-> named[i].ty]]])
\* the nodes of the fields named, with their types, in the order they are
\* traversed: field by field, a Vector first to last and a HashMap in the
\* order of its iterator
Visited(n, fs) ==
    Joined([i \in DOMAIN fs |->
        LET ns == IF fs[i].slot = 1 THEN IntoIter(n) ELSE Field(n, fs[i].slot)
        IN  [k \in DOMAIN ns |-> [node |-> ns[k], ty |-> fs[i].ty]]])

(* walk *)

\* the fields each walk function walks
WalkFields(n, ty) ==
      \* Pandoc::walk, lines 118-127
    CASE ty = "Pandoc" -> <<Holds(1, "MetaValue"), Holds(2, "Blocks")>>
      \* MetaValue::walk, lines 162-181
      [] ty = "MetaValue" ->
            (CASE n.variant = "Map" -> <<Holds(1, "MetaValue")>>
               [] n.variant = "List" -> <<Holds(1, "MetaValue")>>
               [] n.variant \in {"Bool", "String"} -> <<>>
               [] n.variant = "Inlines" -> <<Holds(1, "Inlines")>>
               [] n.variant = "Blocks" -> <<Holds(1, "Blocks")>>)
      \* Blocks::walk, lines 234-242
      [] ty = "Blocks" -> <<Holds(1, "Block")>>
      \* Block::walk, lines 271-308
      [] ty = "Block" ->
            (CASE n.variant \in {"Plain", "Para"} -> <<Holds(1, "Inlines")>>
               [] n.variant = "LineBlock" -> <<Holds(1, "Inlines")>>
               [] n.variant \in {"CodeBlock", "RawBlock"} -> <<>>
               [] n.variant = "BlockQuote" -> <<Holds(1, "Blocks")>>
               [] n.variant \in {"OrderedList", "BulletList"} -> <<Holds(1, "Blocks")>>
               [] n.variant = "DefinitionList" -> <<Holds(1, "DefinitionItem")>>
               [] n.variant = "Header" -> <<Holds(1, "Inlines")>>
               [] n.variant = "HorizontalRule" -> <<>>
               [] n.variant = "Table" -> <<Holds(1, "Table")>>
               [] n.variant = "Figure" -> <<Holds(1, "Caption"), Holds(2, "Blocks")>>
               [] n.variant = "Div" -> <<Holds(1, "Blocks")>>)
      \* the items of a DefinitionList in Block::walk, lines 293-300
      [] ty = "DefinitionItem" -> <<Holds(1, "Inlines"), Holds(2, "Blocks")>>
      \* Inlines::walk, lines 414-429
      [] ty = "Inlines" ->
            (CASE n.rep = "Condensed" -> <<Holds(1, "InlineCondensed")>>
               [] n.rep = "Expanded" -> <<Holds(1, "InlineExpanded")>>)
      \* Inline::walk_general, lines 514-543
      [] ty \in {"InlineCondensed", "InlineExpanded"} ->
            (CASE n.variant = "Leaf" -> <<>>
               [] n.variant \in {"Emph", "Underline", "Strong", "Strikeout", "Superscript", "Subscript", "SmallCaps", "Quoted"} -> <<Holds(1, "Inlines")>>
               [] n.variant = "Cite" -> <<Holds(1, "Citation"), Holds(2, "Inlines")>>
               [] n.variant \in {"Code", "Math", "RawInline"} -> <<>>
               [] n.variant \in {"Link", "Image"} -> <<Holds(1, "Inlines")>>
               [] n.variant = "Note" -> <<Holds(1, "Blocks")>>
               [] n.variant = "Span" -> <<Holds(1, "Inlines")>>)
      \* Citation::walk, lines 639-652
      [] ty = "Citation" -> <<Holds(1, "Inlines"), Holds(2, "Inlines")>>
      \* Table::walk, lines 684-697
      [] ty = "Table" -> <<Holds(1, "Caption"), Holds(2, "TableHead"), Holds(3, "TableBody"), Holds(4, "TableFoot")>>
      \* TableHead::walk, lines 733-742
      [] ty = "TableHead" -> <<Holds(1, "Row")>>
      \* TableBody::walk, lines 771-784
      [] ty = "TableBody" -> <<Holds(1, "Row"), Holds(2, "Row")>>
      \* TableFoot::walk, lines 824-833
      [] ty = "TableFoot" -> <<Holds(1, "Row")>>
      \* Row::walk, lines 862-871
      [] ty = "Row" -> <<Holds(1, "Cell")>>
      \* Cell::walk, lines 904-916
      [] ty = "Cell" -> <<Holds(1, "Blocks")>>
      \* Caption::walk, lines 946-955
      [] ty = "Caption" -> <<Holds(1, "Inlines"), Holds(2, "Blocks")>>
\* the hook each walk function passes the node it has built to; the items
\* of a DefinitionList are tuples and have none
WalkHook(ty) ==
    CASE ty = "Pandoc" -> "map_pandoc"
      [] ty = "MetaValue" -> "map_meta_value"
      [] ty = "Blocks" -> "map_blocks"
      [] ty = "Block" -> "map_block"
      [] ty = "Inlines" -> "map_inlines"
      [] ty = "InlineCondensed" -> "map_inline_condensed"
      [] ty = "InlineExpanded" -> "map_inline_expanded"
      [] ty = "Citation" -> "map_citation"
      [] ty = "Table" -> "map_table"
      [] ty = "TableHead" -> "map_table_head"
      [] ty = "TableBody" -> "map_table_body"
      [] ty = "TableFoot" -> "map_table_foot"
      [] ty = "Row" -> "map_row"
      [] ty = "Cell" -> "map_cell"
      [] ty = "Caption" -> "map_caption"
      [] ty = "DefinitionItem" -> ""
RECURSIVE WalkNode(_, _, _)
\* v.into_iter().map(|x| x.walk(map)) collected with from_iter: each element
\* where it was, a HashMap's value under its key
WalkEach(ns, ty, M) ==
    IF ty = "" THEN ns ELSE [k \in DOMAIN ns |-> WalkNode(ns[k], ty, M)] \o <<>>
\* the struct literal of a walk function: the fields named hold what the
\* walks of their nodes returned, the others what they held
Walked(n, ty, M) ==
    LET fs == WalkFields(n, ty)
    IN  [n EXCEPT !.f1 = WalkEach(n.f1, TypeIn(fs, 1), M),
                  !.f2 = WalkEach(n.f2, TypeIn(fs, 2), M),
                  !.f3 = WalkEach(n.f3, TypeIn(fs, 3), M),
                  !.f4 = WalkEach(n.f4, TypeIn(fs, 4), M)]
\* x.walk(map), x of type ty: what is returned
WalkNode(n, ty, M) ==
    IF WalkHook(ty) = "" THEN Walked(n, ty, M)
    ELSE MapCall(M, WalkHook(ty), Walked(n, ty, M))
\* the enter_* method of trait Map for the kind of each map_* method
EnterMethod ==
    [map_pandoc |-> "enter_pandoc",
     map_meta_value |-> "enter_meta_value",
     map_blocks |-> "enter_blocks",
     map_block |-> "enter_block",
     map_inlines |-> "enter_inlines",
     map_inline_condensed |-> "enter_inline_condensed",
     map_inline_expanded |-> "enter_inline_expanded",
     map_citation |-> "enter_citation",
     map_table |-> "enter_table",
     map_table_head |-> "enter_table_head",
     map_table_body |-> "enter_table_body",
     map_table_foot |-> "enter_table_foot",
     map_row |-> "enter_row",
     map_cell |-> "enter_cell",
     map_caption |-> "enter_caption"]
\* a walk that calls the enter_* method of the node before its map_* method
HookCallsEntering(M, hook, arg) ==
    IF hook = "" THEN <<>>
    ELSE <<[hook |-> EnterMethod[hook], id |-> arg.id, arg |-> arg, ret |-> arg],
           [hook |-> hook, id |-> arg.id, arg |-> arg,
            ret |-> MapCall(M, hook, arg)]>>
\* map.<hook>(arg)
HookCalls(M, hook, arg) ==
    IF hook = "" THEN <<>>
    ELSE <<[hook |-> hook, id |-> arg.id, arg |-> arg,
            ret |-> MapCall(M, hook, arg)]>>
RECURSIVE WalkCalls(_, _, _)
\* a walk that calls the hook with the node as it came, before its fields
\* are walked
WalkCallsHookFirst(n, ty, M) ==
    LET visited == Visited(n, WalkFields(n, ty))
    IN  HookCalls(M, WalkHook(ty), n)
        \o Joined([k \in DOMAIN visited |->
                     WalkCalls(visited[k].node, visited[k].ty, M)])
\* x.walk(map), x of type ty: the calls made on the map, oldest first. The
\* argument of map.<hook>(X { .. }) is evaluated before the call is made.
WalkCalls(n, ty, M) ==
    LET visited == Visited(n, WalkFields(n, ty))
    IN  Joined([k \in DOMAIN visited |->
                  WalkCalls(visited[k].node, visited[k].ty, M)])
        \o HookCalls(M, WalkHook(ty), Walked(n, ty, M))

(* walk_decorations *)

\* the fields each walk_decorations function walks
WalkDecorationsFields(n, ty) ==
      \* Pandoc::walk_decorations, lines 129-143
    CASE ty = "Pandoc" -> <<Holds(1, "MetaValue"), Holds(2, "Blocks")>>
      \* MetaValue::walk_decorations, lines 183-203
      [] ty = "MetaValue" ->
            (CASE n.variant = "Map" -> <<Holds(1, "MetaValue")>>
               [] n.variant = "List" -> <<Holds(1, "MetaValue")>>
               [] n.variant \in {"Bool", "String"} -> <<>>
               [] n.variant = "Inlines" -> <<Holds(1, "Inlines")>>
               [] n.variant = "Blocks" -> <<Holds(1, "Blocks")>>)
      \* Blocks::walk_decorations, lines 244-253
      [] ty = "Blocks" -> <<Holds(1, "Block")>>
      \* Block::walk_decorations, lines 310-352
      [] ty = "Block" ->
            (CASE n.variant \in {"Plain", "Para"} -> <<Holds(1, "Inlines")>>
               [] n.variant = "LineBlock" -> <<Holds(1, "Inlines")>>
               [] n.variant \in {"CodeBlock", "RawBlock"} -> <<>>
               [] n.variant = "BlockQuote" -> <<Holds(1, "Blocks")>>
               [] n.variant \in {"OrderedList", "BulletList"} -> <<Holds(1, "Blocks")>>
               [] n.variant = "DefinitionList" -> <<Holds(1, "DefinitionItem")>>
               [] n.variant = "Header" -> <<Holds(1, "Inlines")>>
               [] n.variant = "HorizontalRule" -> <<>>
               [] n.variant = "Table" -> <<Holds(1, "Table")>>
               [] n.variant = "Figure" -> <<Holds(1, "Caption"), Holds(2, "Blocks")>>
               [] n.variant = "Div" -> <<Holds(1, "Blocks")>>)
      \* the items of a DefinitionList in Block::walk_decorations, lines 333-340
      [] ty = "DefinitionItem" -> <<Holds(1, "Inlines"), Holds(2, "Blocks")>>
      \* Inlines::walk_decorations, lines 431-447
      [] ty = "Inlines" ->
            (CASE n.rep = "Condensed" -> <<Holds(1, "InlineCondensed")>>
               [] n.rep = "Expanded" -> <<Holds(1, "InlineExpanded")>>)
      \* Inline::walk_decorations, lines 545-581
      [] ty \in {"InlineCondensed", "InlineExpanded"} ->
            (CASE n.variant = "Leaf" -> <<>>
               [] n.variant \in {"Emph", "Underline", "Strong", "Strikeout", "Superscript", "Subscript", "SmallCaps", "Quoted"} -> <<Holds(1, "Inlines")>>
               [] n.variant = "Cite" -> <<Holds(1, "Citation"), Holds(2, "Inlines")>>
               [] n.variant \in {"Code", "Math", "RawInline"} -> <<>>
               [] n.variant \in {"Link", "Image"} -> <<Holds(1, "Inlines")>>
               [] n.variant = "Note" -> <<Holds(1, "Blocks")>>
               [] n.variant = "Span" -> <<Holds(1, "Inlines")>>)
      \* Citation::walk_decorations, lines 654-668
      [] ty = "Citation" -> <<Holds(1, "Inlines"), Holds(2, "Inlines")>>
      \* Table::walk_decorations, lines 699-713
      [] ty = "Table" -> <<Holds(1, "Caption"), Holds(2, "TableHead"), Holds(3, "TableBody"), Holds(4, "TableFoot")>>
      \* TableHead::walk_decorations, lines 744-754
      [] ty = "TableHead" -> <<Holds(1, "Row")>>
      \* TableBody::walk_decorations, lines 786-802
      [] ty = "TableBody" -> <<Holds(1, "Row"), Holds(2, "Row")>>
      \* TableFoot::walk_decorations, lines 835-845
      [] ty = "TableFoot" -> <<Holds(1, "Row")>>
      \* Row::walk_decorations, lines 873-887
      [] ty = "Row" -> <<Holds(1, "Cell")>>
      \* Cell::walk_decorations, lines 918-931
      [] ty = "Cell" -> <<Holds(1, "Blocks")>>
      \* Caption::walk_decorations, lines 957-967
      [] ty = "Caption" -> <<Holds(1, "Inlines"), Holds(2, "Blocks")>>
\* the method of the DecorationMap each walk_decorations function converts
\* the decoration of its node with
DecorationMethod(ty) ==
    CASE ty = "Pandoc" -> "map_pandoc_decoration"
      [] ty = "MetaValue" -> "map_meta_value_decoration"
      [] ty = "Blocks" -> "map_blocks_decoration"
      [] ty = "Block" -> "map_block_decoration"
      [] ty = "Inlines" -> "map_inlines_decoration"
      [] ty = "InlineCondensed" -> "map_inline_decoration"
      [] ty = "InlineExpanded" -> "map_inline_decoration"
      [] ty = "Citation" -> "map_citation_decoration"
      [] ty = "Table" -> "map_table_decoration"
      [] ty = "TableHead" -> "map_table_head_decoration"
      [] ty = "TableBody" -> "map_table_body_decoration"
      [] ty = "TableFoot" -> "map_table_foot_decoration"
      [] ty = "Row" -> "map_row_decoration"
      [] ty = "Cell" -> "map_cell_decoration"
      [] ty = "Caption" -> "map_caption_decoration"
      [] ty = "DefinitionItem" -> ""
\* a conversion applied to what it returned
DecorationMappedTwice(M, method, decoration) ==
    IF decoration = None \/ method = "" THEN decoration
    ELSE Some(DecorationCall(M, method, DecorationCall(M, method, decoration[1])))
\* self.decoration.map(|d| map.<method>(d))
DecorationMapped(M, method, decoration) ==
    IF decoration = None \/ method = "" THEN decoration
    ELSE Some(DecorationCall(M, method, decoration[1]))
RECURSIVE WalkDecorationsNode(_, _, _)
WalkDecorationsEach(ns, ty, M) ==
    IF ty = "" THEN ns
    ELSE [k \in DOMAIN ns |-> WalkDecorationsNode(ns[k], ty, M)] \o <<>>
\* x.walk_decorations(map), x of type ty: what is returned
WalkDecorationsNode(n, ty, M) ==
    LET fs == WalkDecorationsFields(n, ty)
    IN  [n EXCEPT !.decoration = DecorationMapped(M, DecorationMethod(ty), @),
                  !.f1 = WalkDecorationsEach(n.f1, TypeIn(fs, 1), M),
                  !.f2 = WalkDecorationsEach(n.f2, TypeIn(fs, 2), M),
                  !.f3 = WalkDecorationsEach(n.f3, TypeIn(fs, 3), M),
                  !.f4 = WalkDecorationsEach(n.f4, TypeIn(fs, 4), M)]
\* map.<method>(d), made when the node has a decoration
DecorationCalls(M, method, n) ==
    IF n.decoration = None \/ method = "" THEN <<>>
    ELSE <<[hook |-> method, id |-> n.id, arg |-> n.decoration[1],
            ret |-> DecorationMapped(M, method, n.decoration)[1]]>>
RECURSIVE WalkDecorationsCalls(_, _, _)
\* x.walk_decorations(map), x of type ty: the calls made on the map, oldest
\* first. The fields of a struct literal are evaluated in the order written,
\* and decoration is written first.
WalkDecorationsCalls(n, ty, M) ==
    LET visited == Visited(n, WalkDecorationsFields(n, ty))
    IN  DecorationCalls(M, DecorationMethod(ty), n)
        \o Joined([k \in DOMAIN visited |->
                     WalkDecorationsCalls(visited[k].node, visited[k].ty, M)])

(* query *)

\* the fields each query function queries
QueryFields(n, ty) ==
      \* Pandoc::query, lines 145-155
    CASE ty = "Pandoc" -> <<Holds(1, "MetaValue"), Holds(2, "Blocks")>>
      \* MetaValue::query, lines 205-227
      [] ty = "MetaValue" ->
            (CASE n.variant = "Map" -> <<Holds(1, "MetaValue")>>
               [] n.variant = "List" -> <<Holds(1, "MetaValue")>>
               [] n.variant = "Inlines" -> <<Holds(1, "Inlines")>>
               [] n.variant = "Blocks" -> <<Holds(1, "Blocks")>>
               [] OTHER -> <<>>)
      \* Blocks::query, lines 255-264
      [] ty = "Blocks" -> <<Holds(1, "Block")>>
      \* Block::query, lines 354-407
      [] ty = "Block" ->
            (CASE n.variant \in {"Plain", "Para"} -> <<Holds(1, "Inlines")>>
               [] n.variant = "LineBlock" -> <<Holds(1, "Inlines")>>
               [] n.variant = "BlockQuote" -> <<Holds(1, "Blocks")>>
               [] n.variant \in {"OrderedList", "BulletList"} -> <<Holds(1, "Blocks")>>
               [] n.variant = "DefinitionList" -> <<Holds(1, "DefinitionItem")>>
               [] n.variant = "Header" -> <<Holds(1, "Inlines")>>
               [] n.variant = "Table" -> <<Holds(1, "Table")>>
               [] n.variant = "Figure" -> <<Holds(1, "Caption"), Holds(2, "Blocks")>>
               [] n.variant = "Div" -> <<Holds(1, "Blocks")>>
               [] OTHER -> <<>>)
      \* the items of a DefinitionList in Block::query, lines 383-390
      [] ty = "DefinitionItem" -> <<Holds(1, "Inlines"), Holds(2, "Blocks")>>
      \* Inlines::query, lines 449-467
      [] ty = "Inlines" ->
            (CASE n.rep = "Condensed" -> <<Holds(1, "InlineCondensed")>>
               [] n.rep = "Expanded" -> <<Holds(1, "InlineExpanded")>>)
      \* Inline::query_general, lines 583-632
      [] ty \in {"InlineCondensed", "InlineExpanded"} ->
            (CASE n.variant \in {"Emph", "Underline", "Strong", "Strikeout", "Superscript", "Subscript", "SmallCaps", "Quoted"} -> <<Holds(1, "Inlines")>>
               [] n.variant = "Cite" -> <<Holds(1, "Citation"), Holds(2, "Inlines")>>
               [] n.variant \in {"Link", "Image"} -> <<Holds(1, "Inlines")>>
               [] n.variant = "Note" -> <<Holds(1, "Blocks")>>
               [] n.variant = "Span" -> <<Holds(1, "Inlines")>>
               [] OTHER -> <<>>)
      \* Citation::query, lines 670-677
      [] ty = "Citation" -> <<Holds(1, "Inlines"), Holds(2, "Inlines")>>
      \* Table::query, lines 715-726
      [] ty = "Table" -> <<Holds(1, "Caption"), Holds(2, "TableHead"), Holds(3, "TableBody"), Holds(4, "TableFoot")>>
      \* TableHead::query, lines 756-764
      [] ty = "TableHead" -> <<Holds(1, "Row")>>
      \* TableBody::query, lines 804-817
      [] ty = "TableBody" -> <<Holds(1, "Row"), Holds(2, "Row")>>
      \* TableFoot::query, lines 847-855
      [] ty = "TableFoot" -> <<Holds(1, "Row")>>
      \* Row::query, lines 889-897
      [] ty = "Row" -> <<Holds(1, "Cell")>>
      \* Cell::query, lines 933-939
      [] ty = "Cell" -> <<Holds(1, "Blocks")>>
      \* Caption::query, lines 969-979
      [] ty = "Caption" -> <<Holds(1, "Inlines"), Holds(2, "Blocks")>>
\* the observer each query function passes its node to
QueryHook(ty) ==
    CASE ty = "Pandoc" -> "query_pandoc"
      [] ty = "MetaValue" -> "query_meta_value"
      [] ty = "Blocks" -> "query_blocks"
      [] ty = "Block" -> "query_block"
      [] ty = "Inlines" -> "query_inlines"
      [] ty = "InlineCondensed" -> "query_inline_condensed"
      [] ty = "InlineExpanded" -> "query_inline_expanded"
      [] ty = "Citation" -> "query_citation"
      [] ty = "Table" -> "query_table"
      [] ty = "TableHead" -> "query_table_head"
      [] ty = "TableBody" -> "query_table_body"
      [] ty = "TableFoot" -> "query_table_foot"
      [] ty = "Row" -> "query_row"
      [] ty = "Cell" -> "query_cell"
      [] ty = "Caption" -> "query_caption"
      [] ty = "DefinitionItem" -> ""
\* query.<hook>(n)
Observed(hook, n) ==
    IF hook = "" THEN <<>> ELSE <<[hook |-> hook, id |-> n.id, arg |-> n]>>
RECURSIVE QueryCalls(_, _)
\* a query that calls the observer of a node before it queries the fields
QueryCallsObserverFirst(n, ty) ==
    LET visited == Visited(n, QueryFields(n, ty))
    IN  Observed(QueryHook(ty), n)
        \o Joined([k \in DOMAIN visited |->
                     QueryCalls(visited[k].node, visited[k].ty)])
\* x.query(query), x of type ty: the calls made on the query, oldest first
QueryCalls(n, ty) ==
    LET visited == Visited(n, QueryFields(n, ty))
    IN  Joined([k \in DOMAIN visited |->
                  QueryCalls(visited[k].node, visited[k].ty)])
        \o Observed(QueryHook(ty), n)

-----------------------------------------------------------------------------
(* The documents traversed *)

\* the decoration of a node: None throughout an undecorated document, and
\* otherwise None for some nodes and for the others one that differs from
\* its parent's and its children's
Dec(d, k) == IF d = None \/ k % 5 = 0 THEN None ELSE Some(d[1] + k)

LeafNode(d) == InlineNode(Dec(d, 1), "Leaf", <<>>, <<>>)
Word(d, rep) == InlinesNode(Dec(d, 2), rep, <<LeafNode(d)>>)
\* an inline sequence that holds one of the other representation
Nested(d, rep, inner) ==
    InlinesNode(Dec(d, 3), rep,
                <<LeafNode(d), InlineNode(Dec(d, 4), "Emph", <<Word(d, inner)>>, <<>>)>>)
TextBlock(d, variant, rep, inner) ==
    BlockNode(Dec(d, 5), variant, <<Nested(d, rep, inner)>>, <<>>)
TextBlocks(d) ==
    BlocksNode(Dec(d, 6),
               <<TextBlock(d, "Para", "Condensed", "Expanded"),
                 TextBlock(d, "Plain", "Expanded", "Condensed")>>)
NoBlocks(d) == BlocksNode(Dec(d, 7), <<>>)
PlainBlocks(d) ==
    BlocksNode(Dec(d, 6),
               <<BlockNode(Dec(d, 5), "Plain", <<Word(d, "Expanded")>>, <<>>)>>)
RuleBlocks(d) ==
    BlocksNode(Dec(d, 6), <<BlockNode(Dec(d, 15), "HorizontalRule", <<>>, <<>>)>>)
CitationExample(d) ==
    CitationNode(Dec(d, 8), Word(d, "Condensed"), Word(d, "Expanded"))
\* the variants of InlineContent that hold one Inlines and nothing else that
\* is a node
InlinesHolders ==
    <<"Emph", "Underline", "Strong", "Strikeout", "Superscript", "Subscript",
      "SmallCaps", "Quoted", "Link", "Image", "Span">>
\* an inline sequence with every variant of InlineContent in it
AllInlines(d, rep) ==
    InlinesNode(Dec(d, 9), rep,
        [k \in DOMAIN InlinesHolders |->
            InlineNode(Dec(d, 10), InlinesHolders[k], <<Word(d, rep)>>, <<>>)]
        \o <<LeafNode(d),
             InlineNode(Dec(d, 11), "Cite",
                        <<CitationExample(d), CitationExample(d)>>,
                        <<Word(d, "Condensed")>>),
             InlineNode(Dec(d, 12), "Code", <<>>, <<>>),
             InlineNode(Dec(d, 12), "Math", <<>>, <<>>),
             InlineNode(Dec(d, 12), "RawInline", <<>>, <<>>),
             InlineNode(Dec(d, 13), "Note", <<PlainBlocks(d)>>, <<>>)>>)
\* the lists, a quotation, a figure without a short caption, the blocks
\* that hold no node and the ones that hold inline sequences
LeafBlocks(d) ==
    BlocksNode(Dec(d, 14),
               <<BlockNode(Dec(d, 19), "OrderedList", <<PlainBlocks(d), NoBlocks(d)>>, <<>>),
                 BlockNode(Dec(d, 20), "BulletList", <<NoBlocks(d), RuleBlocks(d)>>, <<>>),
                 BlockNode(Dec(d, 21), "DefinitionList",
                           <<DefinitionItem(Word(d, "Condensed"), <<PlainBlocks(d), NoBlocks(d)>>),
                             DefinitionItem(Word(d, "Expanded"), <<>>)>>,
                           <<>>),
                 BlockNode(Dec(d, 32), "BlockQuote", <<PlainBlocks(d)>>, <<>>),
                 BlockNode(Dec(d, 34), "Figure",
                           <<CaptionNode(Dec(d, 35), None, NoBlocks(d))>>,
                           <<RuleBlocks(d)>>),
                 BlockNode(Dec(d, 15), "CodeBlock", <<>>, <<>>),
                 BlockNode(Dec(d, 15), "RawBlock", <<>>, <<>>),
                 BlockNode(Dec(d, 15), "HorizontalRule", <<>>, <<>>),
                 BlockNode(Dec(d, 16), "Header", <<Word(d, "Expanded")>>, <<>>),
                 BlockNode(Dec(d, 17), "LineBlock",
                           <<Word(d, "Condensed"), Word(d, "Expanded")>>, <<>>)>>)
CellExample(d) == CellNode(Dec(d, 22), RuleBlocks(d))
RowExample(d, cells) == RowNode(Dec(d, 23), [k \in 1..cells |-> CellExample(d)])
\* a table with a short caption, two bodies, one with intermediate head
\* rows, and rows of none, one and two cells
TableExample(d) ==
    TableNode(Dec(d, 24),
              CaptionNode(Dec(d, 25), Some(Word(d, "Condensed")), PlainBlocks(d)),
              TableHeadNode(Dec(d, 26), <<RowExample(d, 2)>>),
              <<TableBodyNode(Dec(d, 27), <<RowExample(d, 1)>>,
                              <<RowExample(d, 2), RowExample(d, 0)>>),
                TableBodyNode(Dec(d, 27), <<>>, <<RowExample(d, 1)>>)>>,
              TableFootNode(Dec(d, 28), <<RowExample(d, 1)>>))
\* the blocks a document is made of: between them, every variant of
\* BlockContent and of InlineContent
BlockExamples(d) ==
    {BlockNode(Dec(d, 29), "Para", <<AllInlines(d, "Condensed")>>, <<>>),
     BlockNode(Dec(d, 30), "Plain", <<AllInlines(d, "Expanded")>>, <<>>),
     BlockNode(Dec(d, 31), "Div", <<LeafBlocks(d)>>, <<>>),
     BlockNode(Dec(d, 33), "Table", <<TableExample(d)>>, <<>>)}
\* the values of the metadata: every variant of MetaValueContent, with a
\* map inside the map
MetaExample(d, order) ==
    <<MetaMapNode(Dec(d, 36), order,
                  <<MetaValueNode(Dec(d, 37), "List",
                                  <<MetaValueNode(Dec(d, 38), "Bool", <<>>),
                                    MetaValueNode(Dec(d, 39), "String", <<>>)>>),
                    MetaValueNode(Dec(d, 40), "Inlines", <<Word(d, "Condensed")>>)>>),
      MetaValueNode(Dec(d, 41), "Blocks", <<TextBlocks(d)>>)>>
HashOrders == {"", "reversed"}
\* the documents traversed
DocsDecorated(d) ==
    {Labelled(PandocNode(Dec(d, 42), order, MetaExample(d, order),
                         BlocksNode(Dec(d, 43), content)), <<>>) :
        order \in HashOrders,
        content \in SeqsUpTo(BlockExamples(d), MaxBlocks)}
VisitDocs == DocsDecorated(None) \cup DocsDecorated(Some(0))

-----------------------------------------------------------------------------
(* Specification: traversing a document *)

InitVisit ==
    /\ ConvIdle
    /\ SerdeIdle
    /\ threads = NoThreads
    /\ \E input \in VisitDocs : visit = [NoVisit EXCEPT !.input = input]

\* pandoc.walk(&mut map): the document is moved into the walk, and no
\* traversal of it can follow
Walk ==
    /\ visit.op \in {"none", "query"}
    /\ \E M \in Maps :
          visit' = [op |-> "walk", map |-> M, input |-> visit.input,
                    output |-> WalkNode(visit.input, "Pandoc", M),
                    trace |-> WalkCalls(visit.input, "Pandoc", M)]
    /\ UNCHANGED <<convVars, serdeVars, threads>>

\* pandoc.walk_decorations(&map)
WalkDecorations ==
    /\ visit.op \in {"none", "query"}
    /\ \E M \in DecorationMaps :
          visit' = [op |-> "walk_decorations", map |-> M, input |-> visit.input,
                    output |-> WalkDecorationsNode(visit.input, "Pandoc", M),
                    trace |-> WalkDecorationsCalls(visit.input, "Pandoc", M)]
    /\ UNCHANGED <<convVars, serdeVars, threads>>

\* pandoc.query(&mut query): the document is left as it is
Query ==
    /\ visit.op = "none"
    /\ visit' = [op |-> "query", map |-> "", input |-> visit.input,
                 output |-> visit.input, trace |-> QueryCalls(visit.input, "Pandoc")]
    /\ UNCHANGED <<convVars, serdeVars, threads>>

NextVisit == Walk \/ WalkDecorations \/ Query

SpecVisit == InitVisit /\ [][NextVisit]_vars

-----------------------------------------------------------------------------
(* Properties of the traversals *)

\* The nodes of a tree are told apart by id, the path from the root: the
\* node at path p \o <<slot, k>> is the k-th node of field `slot` of the
\* node at p.
IsProperPrefix(p, q) == Len(p) < Len(q) /\ SubSeq(q, 1, Len(p)) = p
RECURSIVE NodeAt(_, _)
\* the node of the tree under n that `path` leads to
NodeAt(n, path) ==
    IF path = <<>> THEN n
    ELSE NodeAt(Field(n, path[1])[path[2]], SubSeq(path, 3, Len(path)))
RECURSIVE NodesOf(_)
\* n and every node below it
NodesOf(n) == {n} \cup UNION {NodesOf(Children(n)[k]) : k \in DOMAIN Children(n)}
\* the nodes a hook exists for: all but the pairs of a DefinitionList, which
\* are tuples
Hooked(n) == n.kind # "DefinitionItem"
HookedIds(n) == {x.id : x \in {y \in NodesOf(n) : Hooked(y)}}
\* event j is of a node held by the node of event k: one of its fields
\* holds it, or holds the pair of a DefinitionList that holds it
HeldBy(tr, j, k) ==
    /\ IsProperPrefix(tr[k].id, tr[j].id)
    /\ \/ Len(tr[j].id) = Len(tr[k].id) + 2
       \/ /\ Len(tr[j].id) = Len(tr[k].id) + 4
          /\ tr[k].arg.variant = "DefinitionList"
\* the path from the node of event k down to the node of event j
PathBelow(tr, j, k) == SubSeq(tr[j].id, Len(tr[k].id) + 1, Len(tr[j].id))
\* as many nodes in every field of a as of b, pairs of a DefinitionList
\* included
SameArity(a, b) ==
    /\ \A slot \in 1..4 : Len(Field(a, slot)) = Len(Field(b, slot))
    /\ a.variant = "DefinitionList" =>
          \A k \in DOMAIN a.f1 : \A slot \in 1..4 :
             Len(Field(a.f1[k], slot)) = Len(Field(b.f1[k], slot))

\* C15: walk is strictly bottom-up. Every node of the document has its
\* map_* hook called; no hook of a node below it is called after that; and
\* the node the hook is passed holds, in every field and at every position,
\* exactly the value the hook of the input's node at that position returned.
C15_BottomUpWalk ==
    visit.op = "walk" =>
        LET tr == visit.trace IN
        /\ {tr[k].id : k \in DOMAIN tr} = HookedIds(visit.input)
        /\ \A k \in DOMAIN tr :
              /\ SameArity(tr[k].arg, NodeAt(visit.input, tr[k].id))
              /\ \A j \in DOMAIN tr :
                    /\ IsProperPrefix(tr[k].id, tr[j].id) => j < k
                    /\ HeldBy(tr, j, k) =>
                          NodeAt(tr[k].arg, PathBelow(tr, j, k)) = tr[j].ret

\* C15 happens: a walk whose hooks all change their node has passed a Table
\* whose second body holds a rewritten row of rewritten cells to map_table,
\* and a DefinitionList block whose pairs hold rewritten terms to map_block
C15_Witness ==
    /\ visit.op = "walk"
    /\ visit.map = "marking"
    /\ \E k \in DOMAIN visit.trace :
          /\ visit.trace[k].hook = "map_table"
          /\ visit.trace[k].arg.f3[2].decoration = Marked
          /\ visit.trace[k].arg.f3[2].f2[1].f1[1].decoration = Marked
          /\ visit.trace[k].arg.decoration # Marked
    /\ \E k \in DOMAIN visit.trace :
          /\ visit.trace[k].hook = "map_block"
          /\ visit.trace[k].arg.variant = "DefinitionList"
          /\ visit.trace[k].arg.f1[1].f1[1].decoration = Marked

\* the methods of Map, DecorationMap and Query for a node, by its kind; for
\* an inline, by the representation of the sequence that holds it
HooksOfKind ==
    [Pandoc |-> <<"map_pandoc", "map_pandoc_decoration", "query_pandoc">>,
     MetaValue |-> <<"map_meta_value", "map_meta_value_decoration", "query_meta_value">>,
     Blocks |-> <<"map_blocks", "map_blocks_decoration", "query_blocks">>,
     Block |-> <<"map_block", "map_block_decoration", "query_block">>,
     Inlines |-> <<"map_inlines", "map_inlines_decoration", "query_inlines">>,
     Condensed |-> <<"map_inline_condensed", "map_inline_decoration", "query_inline_condensed">>,
     Expanded |-> <<"map_inline_expanded", "map_inline_decoration", "query_inline_expanded">>,
     Citation |-> <<"map_citation", "map_citation_decoration", "query_citation">>,
     Table |-> <<"map_table", "map_table_decoration", "query_table">>,
     TableHead |-> <<"map_table_head", "map_table_head_decoration", "query_table_head">>,
     TableBody |-> <<"map_table_body", "map_table_body_decoration", "query_table_body">>,
     TableFoot |-> <<"map_table_foot", "map_table_foot_decoration", "query_table_foot">>,
     Row |-> <<"map_row", "map_row_decoration", "query_row">>,
     Cell |-> <<"map_cell", "map_cell_decoration", "query_cell">>,
     Caption |-> <<"map_caption", "map_caption_decoration", "query_caption">>]
\* the path of the node that holds the node at `path`
ParentPath(path) == SubSeq(path, 1, Len(path) - 2)
\* the methods for the node of `root` at `path`
HooksAt(root, path) ==
    LET n == NodeAt(root, path)
    IN  IF n.kind = "Inline" THEN HooksOfKind[NodeAt(root, ParentPath(path)).rep]
        ELSE HooksOfKind[n.kind]
\* the calls of `tr` are one for each node of `ids`, each of the method
\* number `which` of its node
OncePerNode(tr, ids, root, which) ==
    /\ {tr[k].id : k \in DOMAIN tr} = ids
    /\ Len(tr) = Cardinality(ids)
    /\ \A k \in DOMAIN tr : tr[k].hook = HooksAt(root, tr[k].id)[which]
DecoratedIds(n) ==
    {x.id : x \in {y \in NodesOf(n) : Hooked(y) /\ y.decoration # None}}
AllIds(n) == {x.id : x \in NodesOf(n)}

\* C16: every traversal processes every node once. walk and query call the
\* method of its kind once for every node of the document, the condensed
\* one for an inline of a Condensed sequence and the expanded one for an
\* inline of an Expanded sequence; walk_decorations returns a tree with a
\* node wherever the document has one, and calls the method of its kind
\* once for every node that has a decoration.
C16_Coverage ==
    /\ visit.op = "walk" =>
          OncePerNode(visit.trace, HookedIds(visit.input), visit.input, 1)
    /\ visit.op = "walk_decorations" =>
          /\ AllIds(visit.output) = AllIds(visit.input)
          /\ OncePerNode(visit.trace, DecoratedIds(visit.input), visit.input, 2)
    /\ visit.op = "query" =>
          OncePerNode(visit.trace, HookedIds(visit.input), visit.input, 3)

\* C16 happens: a query of a document with nested metadata, a citation, a
\* captioned table with intermediate head rows, and inlines of both
\* representations has observed them all
C16_Witness ==
    /\ visit.op = "query"
    /\ \E k \in DOMAIN visit.trace :
          /\ visit.trace[k].hook = "query_meta_value"
          /\ visit.trace[k].arg.variant = "Bool"
          /\ Len(visit.trace[k].id) = 6
    /\ \E k \in DOMAIN visit.trace :
          /\ visit.trace[k].hook = "query_table_body"
          /\ visit.trace[k].arg.f1 # <<>>
    /\ \E k \in DOMAIN visit.trace :
          /\ visit.trace[k].hook = "query_caption"
          /\ visit.trace[k].arg.f1 # <<>>
    /\ \E k \in DOMAIN visit.trace : visit.trace[k].hook = "query_citation"
    /\ \E k \in DOMAIN visit.trace : visit.trace[k].hook = "query_table_foot"
    /\ \E k \in DOMAIN visit.trace : visit.trace[k].hook = "query_inline_condensed"
    /\ \E k \in DOMAIN visit.trace : visit.trace[k].hook = "query_inline_expanded"

\* C17: query is bottom-up. Every node of the document has its query_*
\* observer invoked; no observer of a node below it is invoked after that;
\* and the observer invoked last is the one of the document itself.
C17_BottomUpQuery ==
    visit.op = "query" =>
        LET tr == visit.trace IN
        /\ {tr[k].id : k \in DOMAIN tr} = HookedIds(visit.input)
        /\ \A k \in DOMAIN tr : \A j \in DOMAIN tr :
              IsProperPrefix(tr[k].id, tr[j].id) => j < k
        /\ tr[Len(tr)].hook = "query_pandoc"
        /\ tr[Len(tr)].arg = visit.input

\* C17 happens: a query has observed a cell six levels below the document,
\* and its blocks just before it
C17_Witness ==
    /\ visit.op = "query"
    /\ \E k \in DOMAIN visit.trace :
          /\ visit.trace[k].hook = "query_cell"
          /\ Len(visit.trace[k].id) = 12
          /\ k > 1
          /\ visit.trace[k - 1].hook = "query_blocks"
          /\ visit.trace[k - 1].arg = visit.trace[k].arg.f1[1]

\* the decorations of n and of the nodes below it, and the representations
\* of its inline sequences, by path
DecorationsOf(n) == {<<x.id, x.decoration>> : x \in NodesOf(n)}
RepresentationsOf(n) == {<<x.id, x.rep>> : x \in {y \in NodesOf(n) : y.kind = "Inlines"}}

\* C18: a walk with the default hooks returns the document it was given:
\* an equal tree, with the decoration of every node and the representation
\* of every inline sequence as they were.
C18_DefaultIdentity ==
    (visit.op = "walk" /\ visit.map = "default") =>
        /\ visit.output = visit.input
        /\ DecorationsOf(visit.output) = DecorationsOf(visit.input)
        /\ RepresentationsOf(visit.output) = RepresentationsOf(visit.input)

\* C18 happens: a decorated document with metadata and inline sequences of
\* both representations has been walked with the default hooks, which were
\* called
C18_Witness ==
    /\ visit.op = "walk"
    /\ visit.map = "default"
    /\ visit.input.decoration # None
    /\ visit.input.f1 # <<>>
    /\ Len(visit.input.f2[1].f1) = MaxBlocks
    /\ {"Condensed", "Expanded"} \subseteq {r[2] : r \in RepresentationsOf(visit.input)}
    /\ Len(visit.trace) > 0

RECURSIVE Undecorated(_)
\* n with no decoration on any node: its kind, content, order of children
\* and representations
Undecorated(n) ==
    [n EXCEPT !.decoration = None,
              !.f1 = [k \in DOMAIN n.f1 |-> Undecorated(n.f1[k])],
              !.f2 = [k \in DOMAIN n.f2 |-> Undecorated(n.f2[k])],
              !.f3 = [k \in DOMAIN n.f3 |-> Undecorated(n.f3[k])],
              !.f4 = [k \in DOMAIN n.f4 |-> Undecorated(n.f4[k])]]
\* what the conversion for the node of `root` at `path` makes of d: with a
\* function between two SimpleSchemes, F(d) whatever the kind
Converted(M, root, path, d) ==
    IF M = "simple" THEN F(d)
    ELSE ByKindCall(HooksAt(root, path)[2], d)

\* C19: walk_decorations returns the tree it was given but for the
\* decorations: a node without one has none, and a node with decoration d
\* has the conversion of its kind applied to d, which was called once, on d.
C19_Decorations ==
    visit.op = "walk_decorations" =>
        LET tr == visit.trace IN
        /\ Undecorated(visit.output) = Undecorated(visit.input)
        /\ \A x \in NodesOf(visit.input) :
              NodeAt(visit.output, x.id).decoration =
                 IF x.decoration = None THEN None
                 ELSE Some(Converted(visit.map, visit.input, x.id, x.decoration[1]))
        /\ {tr[k].id : k \in DOMAIN tr} = DecoratedIds(visit.input)
        /\ Len(tr) = Cardinality(DecoratedIds(visit.input))
        /\ \A k \in DOMAIN tr :
              /\ tr[k].arg = NodeAt(visit.input, tr[k].id).decoration[1]
              /\ tr[k].ret = Converted(visit.map, visit.input, tr[k].id, tr[k].arg)

\* C19 happens: a document between two SimpleSchemes has been converted by
\* the one function, a decorated row of a table with an undecorated caption
\* among its nodes
C19_Witness ==
    /\ visit.op = "walk_decorations"
    /\ visit.map = "simple"
    /\ \E x \in NodesOf(visit.input) :
          /\ x.kind = "Row"
          /\ x.decoration # None
          /\ NodeAt(visit.output, x.id).decoration = Some(F(x.decoration[1]))
    /\ \E x \in NodesOf(visit.input) :
          /\ x.kind = "Caption"
          /\ x.decoration = None
          /\ x.f1 # <<>>
          /\ x.f1[1].decoration # None
          /\ NodeAt(visit.output, x.id).decoration = None

\* the enter_* methods and the map_* methods of trait Map
EnterMethods == {EnterMethod[h] : h \in DOMAIN EnterMethod}
MapMethods == DOMAIN EnterMethod

\* C30: walk never calls an enter_* method of the Map it is given: the calls
\* it makes are calls of map_* methods, one for each node.
C30_NoEnter ==
    visit.op = "walk" =>
        /\ \A k \in DOMAIN visit.trace :
                /\ visit.trace[k].hook \notin EnterMethods
                /\ visit.trace[k].hook \in MapMethods
        /\ Len(visit.trace) = Cardinality(HookedIds(visit.input))

\* a document with a table has been walked with a consumer's Map
C30_Witness ==
    /\ visit.op = "walk"
    /\ visit.map # "default"
    /\ \E k \in DOMAIN visit.trace : visit.trace[k].hook = "map_cell"
    /\ \E k \in DOMAIN visit.trace : visit.trace[k].hook = "map_inline_condensed"

=============================================================================
